---- MODULE Spec2Model ----
(***************************************************************************)
(* WebCLI backend: the admin session loop with its job tasks               *)
(* (roles/admin_handler.py, core/process_manager.py, core/*_runner.py) and *)
(* the login throttle (webcli_server.py).                                  *)
(*                                                                         *)
(* asyncio is modelled as cooperative tasks: every action is the code a    *)
(* task runs between two suspension points (await), and the actions of     *)
(* different tasks interleave freely.  A finished task is "done" at once;  *)
(* its done-callbacks run in a later step (loop.call_soon), in the order   *)
(* they were added, so the admin done_callback runs before a task that     *)
(* awaits the finished task is resumed.                                    *)
(***************************************************************************)
EXTENDS Integers, Sequences, FiniteSets, TLC

\* ---------------------------------------------------------------- bounds
MaxJobs == 3        \* job tasks one session may create in a run
MaxInputs == 4      \* input lines one session receives in a run
MaxTime == 4        \* last instant of the monotonic clock in a run
MaxArgs == 3        \* tokens of one tcpdump command line in a run

\* ------------------------------------- webcli_server.py configuration
\* The throttle settings are read from the environment; the run uses a
\* configuration with small values.  Lockout times and the window are in clock
\* units, backoff delays in quarters of a clock unit.
AUTH_WINDOW == 2
AUTH_MAX_FAILS_PER_IP == 3
AUTH_MAX_FAILS_PER_USER == 2
AUTH_LOCKOUT_BASE == 2
AUTH_LOCKOUT_MAX == 3
AUTH_BACKOFF_BASE == 4
AUTH_BACKOFF_MAX == 8
\* AUTH_BACKOFF_JITTER is 1 / JitterDiv
JitterDiv == 4

JobIds == 1..MaxJobs
JobKinds == {"tcpdump", "systemctl", "iptables"}
Usernames == {"king", "bob"}
InlineCmds == {"help", "config", "userctl", "unknown"}
\* the input lines, by the branch of admin_handler that classifies them
Lines == {"__INTERRUPT__", "__TAB__", "signout"} \cup InlineCmds \cup JobKinds

\* connections in the login loop, their peer addresses (the clients share
\* one), the users of users.json and the names a client may type
Clients == {"c1", "c2"}
IPs == {"ip1"}
USERS == Usernames
LoginNames == {"king", "eve"}
\* random.random() * 2 - 1, by its extremes and its middle
Jitter == {-1, 0, 1}

VARIABLES
    \* ---- admin_handler locals
    mainPc,          \* position of the session loop
    running_task,    \* 0 is None, else the job id of the Task object
    need_prompt,
    username,
    awaited,         \* the Task object a pending `await <task>` of the loop waits on
    \* ---- core/process_manager.py globals (entry of this websocket; 0 = no entry)
    CURRENT_RUNNING_PROCESS,
    CURRENT_RUNNING_TASK,
    ipcProc,         \* local `proc` of interrupt_current_process
    ipcTask,         \* local `task` of interrupt_current_process
    \* ---- tasks and subprocesses
    jobs,            \* job id -> record of the job task and of its subprocess
    nextJob,
    promptTasks,     \* pending tasks created by asyncio.create_task(send_prompt())
    \* ---- transport
    wsOpen,
    nInputs,         \* input lines accepted so far
    cmd,             \* the line the session loop is handling ("" when none)
    reply,           \* what the session loop has sent for the line it is handling
    suggested,       \* the suggestions of the autocomplete reply just sent
    tab_partial,     \* the text after `__TAB__:` of the line that reply answers
    \* ---- bookkeeping of turns and prompts
    turnEnded,       \* a turn has ended since the last input line was accepted
    promptsAfter,    \* prompts sent since the last end of a turn
    \* ---- webcli_server.py: the two limiters and the login loop of each client
    now,             \* time.monotonic()
    ip_states,       \* _ip_limiter._states
    user_states,     \* _user_limiter._states
    client_ip,       \* _client_ip(websocket) of each client
    loginPc,         \* position of each client's websocket_endpoint
    login_username,  \* local `username` while the password is awaited
    delay,           \* local `backoff` / `delay` during the sleep
    lock_ip,         \* local `lock_s` / `lock_ip` during the sleep
    lock_user,       \* local `lock_user` during the sleep
    sent,            \* the line the login loop sent in the step just taken ("" if none)
    sent_to,         \* the client it was sent to
    sent_wait,       \* the seconds handed to _format_wait for that line (0 if none)
    rehash,          \* how the hash upgrade of lines 467-475 went in the step just taken
    ret,             \* the last call made on a limiter driven directly, and its result
    \* ---- core/tcpdump_runner.py: the validator called on its own
    in_tokens,       \* the argument of _validate_and_normalize_tokens
    validated,       \* what the call returned or raised
    revalidated,     \* what a second call, on the vector returned, returned or raised
    \* ---- core/*_runner.py: the handlers up to create_subprocess_exec
    exec_line,       \* the tokens of the command line a handler was given
    exec_args,       \* the arguments it handed to create_subprocess_exec
    \* ---- two connections side by side: sessions, process table, idle watchers
    conns,               \* websocket -> its job, its subprocess and its idle clock
    RUNNING_PROCESS_OF,  \* the dict CURRENT_RUNNING_PROCESS, websocket -> process
    RUNNING_TASK_OF      \* the dict CURRENT_RUNNING_TASK, websocket -> task

vars == <<mainPc, running_task, need_prompt, username, awaited,
          CURRENT_RUNNING_PROCESS, CURRENT_RUNNING_TASK, ipcProc, ipcTask,
          jobs, nextJob, promptTasks, wsOpen, nInputs, cmd, reply, suggested,
          tab_partial, turnEnded, promptsAfter,
          now, ip_states, user_states, client_ip, loginPc, login_username,
          delay, lock_ip, lock_user, sent, sent_to, sent_wait, rehash, ret,
          in_tokens, validated, revalidated, exec_line, exec_args,
          conns, RUNNING_PROCESS_OF, RUNNING_TASK_OF>>

loginVars == <<now, ip_states, user_states, client_ip, loginPc, login_username,
               delay, lock_ip, lock_user, sent, sent_to, sent_wait, rehash, ret>>
\* the login loops of the clients
clientVars == <<client_ip, loginPc, login_username, delay, lock_ip, lock_user,
                sent, sent_to, sent_wait, rehash>>
validatorVars == <<in_tokens, validated, revalidated, exec_line, exec_args>>
connVars == <<conns, RUNNING_PROCESS_OF, RUNNING_TASK_OF>>
sessionVars == <<mainPc, running_task, need_prompt, username, awaited,
                 CURRENT_RUNNING_PROCESS, CURRENT_RUNNING_TASK, ipcProc, ipcTask,
                 jobs, nextJob, promptTasks, wsOpen, nInputs, cmd, reply, suggested,
                 tab_partial, turnEnded, promptsAfter, validatorVars, connVars>>

\* what the steps of the session between two input lines leave alone
restVars == <<loginVars, suggested, tab_partial, validatorVars, connVars>>
mainVars == <<mainPc, running_task, need_prompt, awaited, ipcProc, ipcTask>>
tableVars == <<CURRENT_RUNNING_PROCESS, CURRENT_RUNNING_TASK>>

\* st: position of the task's coroutine; proc: its subprocess, "none" (not
\* spawned), "run", "term" (running, SIGTERM sent), "kill" (running, SIGKILL
\* sent) or "exit"; cancelReq: task.cancel() was called and the CancelledError
\* is not yet delivered; pend: how a finally block under way will end;
\* outcome: how the task ended; cb: state of its done-callback; target: the
\* local `proc` of a cancel handler
NoJob == [kind |-> "none", st |-> "none", proc |-> "none", cancelReq |-> FALSE,
          pend |-> "ok", outcome |-> "none", cb |-> "none", target |-> 0]

\* a finished task that nothing refers to any more: the Task object is garbage
\* and nothing holds the Process object, so the record keeps no history
DeadJob == [NoJob EXCEPT !.st = "done", !.cb = "ran"]

\* proc.returncode is None for the subprocess of job p
running(p) == jobs[p].proc \in {"run", "term", "kill"}
\* proc.terminate()
Terminate(st) == IF st = "run" THEN "term" ELSE st

\* the loop or a cancel handler still holds the Task or Process object of job j
\* (aw: the task the loop awaits)
referenced(j, aw) ==
    \/ aw = j
    \/ ipcProc = j
    \/ CURRENT_RUNNING_PROCESS = j
    \/ \E k \in JobIds : jobs[k].target = j

\* the record r of job j after a step that may have dropped the last
\* reference to it
ReleasedIf(r, j, aw) ==
    IF r.st = "done" /\ r.cb = "ran" /\ ~referenced(j, aw)
       THEN DeadJob
       ELSE r

Released(r, j) == ReleasedIf(r, j, awaited)

\* task.done()
done(j) == jobs[j].st = "done"
\* a created task that has not finished
unfinished(j) == jobs[j].st \notin {"none", "done"}
\* `running_task and not running_task.done()`
job_live == running_task # 0 /\ ~done(running_task)
\* a done-callback is scheduled (loop.call_soon) and has not run.  The event
\* loop runs its ready queue in FIFO order, so the callback runs before any
\* step of a job task and before any process-exit notification that becomes
\* ready after it; the session loop can still run ahead of it, as long as its
\* awaits do not suspend
callback_pending == \E k \in JobIds : jobs[k].cb = "pending"

\* _KeyState(), and the value standing for a key that _states does not hold
KeyState == [present |-> TRUE, fail_times |-> <<>>, lock_until |-> 0, lockouts |-> 0]
NoKeyState == [KeyState EXCEPT !.present = FALSE]

\* op: the method called; limiter, key: on what; prior: the state of the key
\* when the call was made; at: the time of the call; backoff, value: what the
\* call returned
NoCall == [op |-> "none", limiter |-> "none", key |-> "", prior |-> NoKeyState,
           at |-> 0, backoff |-> 0, value |-> 0]

\* the server has started and every client is at the username prompt
LoginStart ==
    /\ now = 1
    /\ ip_states = [k \in IPs |-> NoKeyState]
    /\ user_states = [k \in LoginNames |-> NoKeyState]
    /\ client_ip \in [Clients -> IPs]
    /\ loginPc = [c \in Clients |-> "username"]
    /\ login_username = [c \in Clients |-> ""]
    /\ delay = [c \in Clients |-> 0]
    /\ lock_ip = [c \in Clients |-> 0]
    /\ lock_user = [c \in Clients |-> 0]
    /\ sent = ""
    /\ sent_to = ""
    /\ sent_wait = 0
    /\ rehash = "none"
    /\ ret = NoCall

\* the connections that have an admin session each
Websockets == {"ws1", "ws2"}

\* kind, st: the job task of the session ("none": running_task is None; "start":
\* created, its handler not yet at create_subprocess_exec; "run": the
\* subprocess was spawned); proc: the subprocess of the session ("none", "run"
\* or "exit"); last_client_activity, open: ActivityWebSocket; warned: the
\* local of _idle_watcher; polled_at: when its last sleep ended (when it
\* was created, before the first)
NoConn == [kind |-> "none", st |-> "none", proc |-> "none",
           last_client_activity |-> 1, warned |-> FALSE, polled_at |-> 1,
           open |-> TRUE]

\* both sessions have just been handed to admin_handler
ConnStart ==
    /\ conns = [w \in Websockets |-> NoConn]
    /\ RUNNING_PROCESS_OF = [w \in Websockets |-> "none"]
    /\ RUNNING_TASK_OF = [w \in Websockets |-> "none"]

\* no autocomplete request is being answered
NoPartial == [words |-> <<>>, space |-> FALSE]

\* admin_handler has been entered for `username`
SessionStart ==
    /\ mainPc = "top"
    /\ running_task = 0
    /\ need_prompt = TRUE
    /\ username \in Usernames
    /\ awaited = 0
    /\ CURRENT_RUNNING_PROCESS = 0
    /\ CURRENT_RUNNING_TASK = 0
    /\ ipcProc = 0
    /\ ipcTask = 0
    /\ jobs = [j \in JobIds |-> NoJob]
    /\ nextJob = 1
    /\ promptTasks = 0
    /\ wsOpen = TRUE
    /\ nInputs = 0
    /\ cmd = ""
    /\ reply = ""
    /\ suggested = <<>>
    /\ tab_partial = NoPartial
    /\ turnEnded = TRUE
    /\ promptsAfter = 0

\* _validate_and_normalize_tokens has not been called
NotValidated == [ok |-> FALSE, out |-> <<>>, error |-> "not called"]
\* no handler has built an argument vector
NoArgs == [called |-> FALSE, spawned |-> FALSE, args |-> <<>>]
ValidatorStart ==
    /\ in_tokens = <<>>
    /\ validated = NotValidated
    /\ revalidated = NotValidated
    /\ exec_line = <<>>
    /\ exec_args = NoArgs

\* the session of one admin; the login loops of the other clients stand still
SessionInit ==
    /\ SessionStart
    /\ ConnStart
    /\ LoginStart
    /\ ValidatorStart

\* ------------------------------------------------- core/process_manager.py
set_current_process(process, task) ==
    /\ CURRENT_RUNNING_PROCESS' = process
    /\ CURRENT_RUNNING_TASK' = IF task # 0 THEN task ELSE CURRENT_RUNNING_TASK

\* clear_current_process popping nothing
clear_current_process_Kept ==
    UNCHANGED <<CURRENT_RUNNING_PROCESS, CURRENT_RUNNING_TASK>>

clear_current_process ==
    /\ CURRENT_RUNNING_PROCESS' = 0
    /\ CURRENT_RUNNING_TASK' = 0

\* the session loop sends msg with websocket.send_text
Sent(msg) == reply' = msg

\* prompts are counted from the end of a turn on, up to "two or more"
CountUp(n) == IF ~turnEnded THEN n ELSE IF n < 2 THEN n + 1 ELSE 2

\* the turn bookkeeping of a step that neither ends a turn nor sends a prompt
TurnSame == UNCHANGED <<turnEnded, promptsAfter>>
TurnEnds == turnEnded' = TRUE /\ promptsAfter' = 0

\* an input line is accepted: receive_text() returns line
AcceptLine(line) ==
    /\ mainPc = "recv"
    /\ wsOpen
    /\ nInputs < MaxInputs
    /\ nInputs' = nInputs + 1
    /\ cmd' = line
    /\ UNCHANGED <<loginVars, validatorVars, connVars>>

\* the line is not answered with suggestions
Accept(line) ==
    /\ AcceptLine(line)
    /\ suggested' = <<>>
    /\ tab_partial' = NoPartial

\* --------------------------------------------- core/autocomplete_handler.py
\* Strings are handled through their spelling: Spell lists the characters of
\* every word that a partial command, a command table or a suggestion of the
\* run holds.  The partial commands of the run are in lower case.
BaseSpell ==
    [e0 \in {""} |-> <<>>] @@
    [help |-> <<"h", "e", "l", "p">>,
     signout |-> <<"s", "i", "g", "n", "o", "u", "t">>,
     config |-> <<"c", "o", "n", "f", "i", "g">>,
     userctl |-> <<"u", "s", "e", "r", "c", "t", "l">>,
     tcpdump |-> <<"t", "c", "p", "d", "u", "m", "p">>,
     systemctl |-> <<"s", "y", "s", "t", "e", "m", "c", "t", "l">>,
     iptables |-> <<"i", "p", "t", "a", "b", "l", "e", "s">>,
     add |-> <<"a", "d", "d">>,
     edit |-> <<"e", "d", "i", "t">>,
     del |-> <<"d", "e", "l">>,
     list |-> <<"l", "i", "s", "t">>,
     king |-> <<"k", "i", "n", "g">>,
     bob |-> <<"b", "o", "b">>,
     disable |-> <<"d", "i", "s", "a", "b", "l", "e">>,
     enable |-> <<"e", "n", "a", "b", "l", "e">>,
     reload |-> <<"r", "e", "l", "o", "a", "d">>,
     restart |-> <<"r", "e", "s", "t", "a", "r", "t">>,
     start |-> <<"s", "t", "a", "r", "t">>,
     status |-> <<"s", "t", "a", "t", "u", "s">>,
     stop |-> <<"s", "t", "o", "p">>,
     cron |-> <<"c", "r", "o", "n">>,
     nginx |-> <<"n", "g", "i", "n", "x">>,
     ssh |-> <<"s", "s", "h">>,
     sshd |-> <<"s", "s", "h", "d">>,
     webcli |-> <<"w", "e", "b", "c", "l", "i">>,
     u |-> <<"u">>,
     s |-> <<"s">>,
     a |-> <<"a">>,
     k |-> <<"k">>,
     n |-> <<"n">>,
     re |-> <<"r", "e">>,
     x |-> <<"x">>]

\* f"{service}.service" of the whitelisted services
Suffix == <<".", "s", "e", "r", "v", "i", "c", "e">>
UnitOf ==
    [cron |-> "cron.service", nginx |-> "nginx.service", ssh |-> "ssh.service",
     sshd |-> "sshd.service", webcli |-> "webcli.service"]

Spell ==
    BaseSpell @@
    [unit \in {UnitOf[svc] : svc \in DOMAIN UnitOf} |->
        BaseSpell[CHOOSE svc \in DOMAIN UnitOf : UnitOf[svc] = unit] \o Suffix]

\* the word spelled by chars
Unspell(chars) == CHOOSE word \in DOMAIN Spell : Spell[word] = chars

startswith(word, prefix) ==
    /\ Len(Spell[prefix]) <= Len(Spell[word])
    /\ SubSeq(Spell[word], 1, Len(Spell[prefix])) = Spell[prefix]

ROLE_COMMANDS ==
    [admin |-> <<"tcpdump", "config", "help", "signout", "systemctl">>,
     operator |-> <<"tcpdump", "help", "signout">>,
     viewer |-> <<"help", "signout">>]

\* ALL_COMMANDS: the commands whose module has an `autocomplete` function
\* (tcpdump_runner has none)
DelegatedCommands == {"userctl", "systemctl"}

\* list.insert(i, x) with i counted from 0
Insert(list, i, x) == SubSeq(list, 1, i) \o <<x>> \o SubSeq(list, i + 1, Len(list))

Range(list) == {list[i] : i \in DOMAIN list}

\* the allowed set without the identity test
allowed_for_AnyAdmin(role, name) ==
    LET base == IF role \in DOMAIN ROLE_COMMANDS THEN ROLE_COMMANDS[role] ELSE <<>>
    IN  IF role = "admin" /\ "userctl" \notin Range(base)
           THEN Insert(base, 1, "userctl")
           ELSE base

\* _allowed_for: the allowed top-level commands of a role and username
allowed_for(role, name) ==
    LET base == IF role \in DOMAIN ROLE_COMMANDS THEN ROLE_COMMANDS[role] ELSE <<>>
    IN  IF role = "admin" /\ name = "king" /\ "userctl" \notin Range(base)
           THEN Insert(base, 1, "userctl")
           ELSE base

\* core/userctl_runner.py autocomplete(tokens); each suggestion is the list
\* of the words it holds
userctl_autocomplete(tokens) ==
    LET subcommands == <<"add", "edit", "del", "list">>
        first == IF tokens = <<>> THEN "" ELSE tokens[1]
        Matches(w) == startswith(w, first)
        users == <<"king", "bob">>
        UserMatches(w) == startswith(w, tokens[2])
        Words(list) == [i \in DOMAIN list |-> <<list[i]>>]
    IN  IF Len(tokens) <= 1
           THEN Words(SelectSeq(subcommands, Matches))
           ELSE IF tokens[1] \in {"edit", "del"} /\ Len(tokens) = 2
                   THEN Words(SelectSeq(users, UserMatches))
                   ELSE <<>>

\* core/systemctl_runner.py _strip_suffix and autocomplete(tokens)
strip_suffix(service) ==
    LET chars == Spell[service]
        k == Len(chars) - Len(Suffix)
    IN  IF k >= 0 /\ SubSeq(chars, k + 1, Len(chars)) = Suffix
           THEN Unspell(SubSeq(chars, 1, k))
           ELSE service

\* (ALLOWED_SUBCOMMANDS and ALLOWED_SERVICES are sets: where the code does not
\* sort them the order of the suggestions is the set's, here the sorted one)
systemctl_autocomplete(tokens) ==
    LET subcommands == <<"disable", "enable", "reload", "restart", "start", "status", "stop">>
        services == <<"cron", "nginx", "ssh", "sshd", "webcli">>
        Matches(w) == startswith(w, tokens[1])
        ServiceMatches(w) == startswith(w, strip_suffix(tokens[2]))
        found == SelectSeq(services, ServiceMatches)
    IN  IF tokens = <<>>
           THEN [i \in DOMAIN subcommands |-> <<subcommands[i]>>]
           ELSE IF Len(tokens) = 1
                   THEN LET subs == SelectSeq(subcommands, Matches)
                        IN  [i \in DOMAIN subs |-> <<subs[i]>>]
                   ELSE IF Len(tokens) = 2
                           THEN IF tokens[1] \notin Range(subcommands)
                                   THEN <<>>
                                   ELSE [i \in DOMAIN found |->
                                            <<tokens[1], Unspell(Spell[found[i]] \o Suffix)>>]
                           ELSE <<>>

\* A partial command is the list of its words and whether it ends with a
\* space.  str.strip() removes that space.
strip(partial) == [partial EXCEPT !.space = FALSE]

\* autocomplete_handler(partial_command, role, username)
autocomplete_handler(partial, role, name) ==
    LET tokens == IF partial.space THEN Append(partial.words, "") ELSE partial.words
        allowed_cmds == allowed_for(role, name)
        first == tokens[1]
        Matches(c) == startswith(c, first)
        Words(list) == [i \in DOMAIN list |-> <<list[i]>>]
    IN  IF tokens = <<>> \/ tokens = <<"">>
           THEN Words(allowed_cmds)
           ELSE IF Len(tokens) = 1 /\ ~partial.space
                   THEN Words(SelectSeq(allowed_cmds, Matches))
                   ELSE IF first \in Range(allowed_cmds) /\ first \in DelegatedCommands
                           THEN LET sugg == IF first = "userctl"
                                                THEN userctl_autocomplete(Tail(tokens))
                                                ELSE systemctl_autocomplete(Tail(tokens))
                                IN  [i \in DOMAIN sugg |->
                                        IF sugg[i] = <<"">>
                                           THEN <<first, "">>
                                           ELSE <<first>> \o sugg[i]]
                           ELSE <<>>

\* the partial commands of the run
Partials ==
    {[words |-> w, space |-> FALSE] :
        w \in {<<>>, <<"u">>, <<"s">>, <<"x">>, <<"userctl", "a">>,
               <<"userctl", "del", "k">>, <<"tcpdump", "x">>, <<"systemctl", "re">>,
               <<"systemctl", "status", "n">>}}
    \cup {[words |-> w, space |-> TRUE] : w \in {<<"userctl">>, <<"systemctl">>}}

\* ------------------------------------------------ roles/admin_handler.py
\* lines 28-32, reached with need_prompt = np:
\* `if not running_task and need_prompt: await send_prompt(); need_prompt = False`
\* and then receive_text()
LoopTop(np) ==
    IF running_task = 0 /\ np
       THEN IF wsOpen
               THEN /\ promptsAfter' = CountUp(promptsAfter)
                    /\ need_prompt' = FALSE
                    /\ mainPc' = "recv"
               ELSE /\ mainPc' = "ended"
                    /\ need_prompt' = np
                    /\ UNCHANGED promptsAfter
       ELSE /\ mainPc' = "recv"
            /\ need_prompt' = np
            /\ UNCHANGED promptsAfter

\* the loop top at the start of the session and after a reply followed by
\* `continue`
MainLoopTop ==
    /\ UNCHANGED <<nInputs, loginVars, validatorVars, connVars>>
    /\ suggested' = <<>>
    /\ tab_partial' = NoPartial
    /\ cmd' = ""
    /\ mainPc = "top"
    /\ reply' = ""
    /\ LoopTop(need_prompt)
    /\ UNCHANGED <<running_task, username, awaited, tableVars, ipcProc, ipcTask,
                   jobs, nextJob, promptTasks, wsOpen, turnEnded>>

\* receive_text() on a closed connection raises WebSocketDisconnect
MainRecvClosed ==
    /\ UNCHANGED <<nInputs, cmd, restVars>>
    /\ mainPc = "recv"
    /\ ~wsOpen
    /\ mainPc' = "ended"
    /\ UNCHANGED <<running_task, need_prompt, username, awaited, tableVars, ipcProc,
                   ipcTask, jobs, nextJob, promptTasks, wsOpen, reply, turnEnded, promptsAfter>>

\* line 39-47 of admin_handler, entered with no suspension since line 36:
\* running_task.cancel(); await running_task
CancelAndAwait(rt) ==
    IF rt = 0
       THEN \* None.cancel(): AttributeError leaves the loop
            /\ mainPc' = "crashed"
            /\ UNCHANGED <<running_task, need_prompt, awaited, jobs>>
       ELSE IF ~done(rt)
               THEN /\ jobs' = [jobs EXCEPT ![rt].cancelReq = TRUE]
                    /\ awaited' = rt
                    /\ mainPc' = "int_await"
                    /\ UNCHANGED <<running_task, need_prompt>>
               ELSE IF jobs[rt].outcome = "error"
                       THEN \* await of a task that raised re-raises
                            /\ mainPc' = "raised"
                            /\ UNCHANGED <<running_task, need_prompt, awaited, jobs>>
                       ELSE \* no prompt is owed: on to receive_text()
                            /\ running_task' = 0
                            /\ need_prompt' = FALSE
                            /\ mainPc' = "recv"
                            /\ UNCHANGED <<awaited, jobs>>

\* interrupt_current_process from `if task and not task.done()` to its return
\* or to its `await task`; base is the reply so far
IpcTaskPart(t, base) ==
    IF t # 0 /\ ~done(t)
       THEN /\ jobs' = [jobs EXCEPT ![t].cancelReq = TRUE]
            /\ awaited' = t
            /\ mainPc' = "ipc_await"
            /\ reply' = base
            /\ UNCHANGED tableVars
       ELSE /\ clear_current_process
            /\ IF wsOpen
                  THEN reply' = "interrupted_by_user" /\ mainPc' = "l39"
                  ELSE reply' = base /\ mainPc' = "ended"
            /\ UNCHANGED <<awaited, jobs>>

\* `__INTERRUPT__` while running_task is live: interrupt_current_process up to
\* its first suspension, and lines 39-41 when it returns False at once
MainInterruptLive ==
    /\ Accept("__INTERRUPT__")
    /\ job_live
    /\ turnEnded' = FALSE /\ promptsAfter' = 0
    /\ LET proc == CURRENT_RUNNING_PROCESS
           task == CURRENT_RUNNING_TASK
       IN  IF proc = 0 /\ task = 0
              THEN \* return False; nothing terminated, nothing sent
                   /\ CancelAndAwait(running_task)
                   /\ reply' = ""
                   /\ UNCHANGED <<tableVars, ipcProc, ipcTask>>
              ELSE IF proc # 0 /\ running(proc)
                      THEN \* proc.terminate(); await wait_for(proc.wait(), 2.0)
                           /\ jobs' = [jobs EXCEPT ![proc].proc = Terminate(@)]
                           /\ mainPc' = "ipc_wait"
                           /\ ipcProc' = proc
                           /\ ipcTask' = task
                           /\ reply' = ""
                           /\ UNCHANGED <<running_task, need_prompt, awaited, tableVars>>
                      ELSE /\ IpcTaskPart(task, "")
                           /\ UNCHANGED <<running_task, need_prompt, ipcProc, ipcTask>>
    /\ UNCHANGED <<username, nextJob, promptTasks, wsOpen>>

\* wait_for(proc.wait(), 2.0) or the proc.wait() after kill returns
MainIpcProcExited ==
    /\ UNCHANGED <<nInputs, cmd, restVars>>
    /\ mainPc \in {"ipc_wait", "ipc_kill"}
    /\ jobs[ipcProc].proc = "exit"
    /\ IpcTaskPart(ipcTask, reply)
    /\ ipcProc' = 0
    /\ ipcTask' = 0
    /\ UNCHANGED <<running_task, need_prompt, username, nextJob,
                   promptTasks, wsOpen, turnEnded, promptsAfter>>

\* asyncio.TimeoutError after the 2.0 s grace period: proc.kill(); await proc.wait()
MainIpcTimeout ==
    /\ UNCHANGED <<nInputs, cmd, restVars>>
    /\ mainPc = "ipc_wait"
    /\ running(ipcProc)
    /\ jobs' = [jobs EXCEPT ![ipcProc].proc = "kill"]
    /\ mainPc' = "ipc_kill"
    /\ UNCHANGED <<running_task, need_prompt, username, awaited, tableVars, ipcProc,
                   ipcTask, nextJob, promptTasks, wsOpen, reply,
                   turnEnded, promptsAfter>>

\* `await task` of interrupt_current_process resumes: the task is done and its
\* earlier done-callbacks have run
MainIpcAwaitDone ==
    /\ UNCHANGED <<nInputs, cmd, restVars>>
    /\ mainPc = "ipc_await"
    /\ done(awaited)
    /\ jobs[awaited].cb = "ran"
    /\ IF jobs[awaited].outcome = "error"
          THEN /\ mainPc' = "raised"
               /\ UNCHANGED <<tableVars, reply>>
          ELSE /\ clear_current_process
               /\ IF wsOpen
                     THEN Sent("interrupted_by_user") /\ mainPc' = "l39"
                     ELSE UNCHANGED reply /\ mainPc' = "ended"
    /\ awaited' = 0
    /\ jobs' = [jobs EXCEPT ![awaited] = ReleasedIf(@, awaited, 0)]
    /\ UNCHANGED <<running_task, need_prompt, username, ipcProc, ipcTask,
                   nextJob, promptTasks, wsOpen, turnEnded,
                   promptsAfter>>

\* interrupt_current_process has returned True: lines 39-47
MainAfterInterrupt ==
    /\ UNCHANGED <<nInputs, restVars>>
    /\ cmd' = ""
    /\ mainPc = "l39"
    /\ CancelAndAwait(running_task)
    /\ reply' = ""
    /\ UNCHANGED <<username, tableVars, ipcProc, ipcTask, nextJob, promptTasks, wsOpen,
                   turnEnded, promptsAfter>>

\* `await running_task` (line 41) resumes; then running_task = None,
\* need_prompt = False, continue and, no prompt being owed, receive_text()
MainAwaitDone ==
    /\ UNCHANGED <<nInputs, restVars>>
    /\ cmd' = ""
    /\ mainPc = "int_await"
    /\ done(awaited)
    /\ jobs[awaited].cb = "ran"
    /\ IF jobs[awaited].outcome = "error"
          THEN /\ mainPc' = "raised"
               /\ UNCHANGED <<running_task, need_prompt>>
          ELSE /\ running_task' = 0
               /\ need_prompt' = FALSE
               /\ mainPc' = "recv"
    /\ awaited' = 0
    /\ jobs' = [jobs EXCEPT ![awaited] = ReleasedIf(@, awaited, 0)]
    /\ UNCHANGED <<username, tableVars, ipcProc, ipcTask, nextJob,
                   promptTasks, wsOpen, reply, turnEnded, promptsAfter>>

\* MainInterruptIdle with the else branch resetting the session as the
\* interrupt branch does
MainInterruptIdle_Resets ==
    /\ Accept("__INTERRUPT__")
    /\ ~job_live
    /\ reply' = "no_running_command"
    /\ mainPc' = "set_need"
    /\ TurnEnds
    /\ running_task' = 0
    /\ clear_current_process
    /\ UNCHANGED <<need_prompt, username, awaited, ipcProc, ipcTask, jobs, nextJob,
                   promptTasks, wsOpen>>

\* `__INTERRUPT__` with no live job
MainInterruptIdle ==
    /\ Accept("__INTERRUPT__")
    /\ ~job_live
    /\ reply' = "no_running_command"
    /\ mainPc' = "set_need"
    /\ TurnEnds
    /\ UNCHANGED <<running_task, need_prompt, username, awaited, tableVars, ipcProc,
                   ipcTask, jobs, nextJob, promptTasks, wsOpen>>

\* any other line while a job is live
MainBusy ==
    /\ \E line \in Lines \ {"__INTERRUPT__"} : Accept(line)
    /\ job_live
    /\ reply' = "already_running"
    /\ mainPc' = "top"
    /\ turnEnded' = FALSE /\ promptsAfter' = 0
    /\ UNCHANGED <<running_task, need_prompt, username, awaited, tableVars, ipcProc,
                   ipcTask, jobs, nextJob, promptTasks, wsOpen>>

\* the tag without the single-match case
autocomplete_reply_NoReplace(suggestions) ==
    IF suggestions = <<>> THEN "autocomplete_nomatches" ELSE "autocomplete_matches"

\* lines 63-68: the tag of the reply
autocomplete_reply(suggestions) ==
    IF suggestions = <<>>
       THEN "autocomplete_nomatches"
       ELSE IF Len(suggestions) = 1
               THEN "autocomplete_replace"
               ELSE "autocomplete_matches"

\* lines 59-69: the partial command is stripped and handed to
\* autocomplete_handler, and the reply is tagged by the number of suggestions
MainTab ==
    /\ AcceptLine("__TAB__")
    /\ ~job_live
    /\ \E raw \in Partials :
          LET suggestions == autocomplete_handler(strip(raw), "admin", username)
          IN  /\ tab_partial' = raw
              /\ suggested' = suggestions
              /\ reply' = autocomplete_reply(suggestions)
    /\ mainPc' = "top"
    /\ turnEnded' = FALSE /\ promptsAfter' = 0
    /\ UNCHANGED <<running_task, need_prompt, username, awaited, tableVars, ipcProc,
                   ipcTask, jobs, nextJob, promptTasks, wsOpen>>

MainSignout ==
    /\ Accept("signout")
    /\ ~job_live
    /\ reply' = "signing_out"
    /\ mainPc' = "signedout"
    /\ turnEnded' = FALSE /\ promptsAfter' = 0
    /\ UNCHANGED <<running_task, need_prompt, username, awaited, tableVars, ipcProc,
                   ipcTask, jobs, nextJob, promptTasks, wsOpen>>

\* the reply of a line answered inline
InlineReply(line) ==
    CASE line = "help" -> "help"
      [] line = "config" -> "config_returned"
      [] line = "userctl" -> IF username = "king" THEN "userctl_done" ELSE "permission_denied"
      [] OTHER -> "unknown_command"

\* the inline replies dropping the session's reference to its task
MainInline_ResetsTask ==
    /\ \E line \in InlineCmds :
          /\ Accept(line)
          /\ reply' = InlineReply(line)
    /\ ~job_live
    /\ mainPc' = "set_need"
    /\ TurnEnds
    /\ running_task' = 0
    /\ UNCHANGED <<need_prompt, username, awaited, tableVars, ipcProc,
                   ipcTask, jobs, nextJob, promptTasks, wsOpen>>

\* help, config, userctl, unknown command: reply, then `need_prompt = True`
MainInline ==
    /\ \E line \in InlineCmds :
          /\ Accept(line)
          /\ reply' = InlineReply(line)
    /\ ~job_live
    /\ mainPc' = "set_need"
    /\ TurnEnds
    /\ UNCHANGED <<running_task, need_prompt, username, awaited, tableVars, ipcProc,
                   ipcTask, jobs, nextJob, promptTasks, wsOpen>>

\* line 99: handle_userctl raises (load_users or save_users of
\* core/userctl_runner.py fails on the users file, outside any try block);
\* admin_handler has no handler for it and is left through the exception
MainInlineRaises ==
    /\ Accept("userctl")
    /\ username = "king"
    /\ ~job_live
    /\ reply' = ""
    /\ mainPc' = "raised"
    /\ TurnSame
    /\ UNCHANGED <<running_task, need_prompt, username, awaited, tableVars, ipcProc,
                   ipcTask, jobs, nextJob, promptTasks, wsOpen>>

\* the statements after the reply's await: `need_prompt = True; continue`,
\* and the loop top
MainSetNeed ==
    /\ UNCHANGED <<nInputs, restVars>>
    /\ cmd' = ""
    /\ mainPc = "set_need"
    /\ reply' = ""
    /\ LoopTop(TRUE)
    /\ UNCHANGED <<running_task, username, awaited, tableVars, ipcProc, ipcTask, jobs,
                   nextJob, promptTasks, wsOpen, turnEnded>>

\* tcpdump / systemctl / iptables: running_task = asyncio.create_task(...);
\* running_task.add_done_callback(done_callback); continue and, running_task
\* being set, receive_text()
MainDispatch ==
    /\ ~job_live
    /\ nextJob <= MaxJobs
    /\ \E kind \in JobKinds :
          /\ Accept(kind)
          /\ jobs' = [jobs EXCEPT ![nextJob] = [NoJob EXCEPT !.kind = kind, !.st = "start"]]
    /\ running_task' = nextJob
    /\ nextJob' = nextJob + 1
    /\ reply' = ""
    /\ mainPc' = "recv"
    /\ turnEnded' = FALSE /\ promptsAfter' = 0
    /\ UNCHANGED <<need_prompt, username, awaited, tableVars, ipcProc, ipcTask,
                   promptTasks, wsOpen>>

\* ------------------------------------------------------------- job tasks
SpawnChoices == {"reject", "spawn", "spawn_fails"}

\* the task's coroutine returns or raises: the task is done and its
\* done-callbacks are scheduled
Finished(r, oc) ==
    [r EXCEPT !.st = "done", !.outcome = oc, !.cb = "pending", !.cancelReq = FALSE,
              !.pend = "ok", !.target = 0]

jobSideVars == <<mainVars, username, nextJob, promptTasks, wsOpen, nInputs, cmd, reply, restVars>>

\* a task cancelled before its first step never runs its coroutine
JobCancelledAtStart(j) ==
    /\ ~callback_pending
    /\ jobs[j].st = "start"
    /\ jobs[j].cancelReq
    /\ jobs' = [jobs EXCEPT ![j] = Finished(@, "cancelled")]
    /\ TurnEnds
    /\ UNCHANGED <<jobSideVars, tableVars>>

\* a subprocess exits (by itself, on SIGTERM or on SIGKILL)
ProcExit(j) ==
    /\ ~callback_pending
    /\ running(j)
    /\ jobs' = [jobs EXCEPT ![j] = Released([@ EXCEPT !.proc = "exit"], j)]
    /\ UNCHANGED <<jobSideVars, tableVars, turnEnded, promptsAfter>>

\* ---- core/tcpdump_runner.py handle_tcpdump
\* lines 196-244: checks, validation, spawn, set_current_process(ws, process, task)
handle_tcpdump_start(j) ==
    /\ ~callback_pending
    /\ jobs[j].kind = "tcpdump"
    /\ jobs[j].st = "start"
    /\ ~jobs[j].cancelReq
    /\ IF ~wsOpen
          THEN /\ jobs' = [jobs EXCEPT ![j] = Finished(@, "error")]
               /\ TurnEnds
               /\ UNCHANGED tableVars
          ELSE \E c \in SpawnChoices :
                 CASE c = "reject" ->
                        /\ jobs' = [jobs EXCEPT ![j] = Finished(@, "ok")]
                        /\ TurnEnds
                        /\ UNCHANGED tableVars
                   [] c = "spawn" ->
                        /\ jobs' = [jobs EXCEPT ![j].st = "wait", ![j].proc = "run"]
                        /\ set_current_process(j, j)
                        /\ TurnSame
                   [] OTHER ->
                        \* create_subprocess_exec raises outside the try block
                        /\ jobs' = [jobs EXCEPT ![j] = Finished(@, "error")]
                        /\ TurnEnds
                        /\ UNCHANGED tableVars
    /\ UNCHANGED jobSideVars

\* line 247: process.wait() returns; the task goes on to `await reader_task`
\* and the final send
handle_tcpdump_exited(j) ==
    /\ ~callback_pending
    /\ jobs[j].kind = "tcpdump"
    /\ jobs[j].st = "wait"
    /\ ~jobs[j].cancelReq
    /\ jobs[j].proc = "exit"
    /\ jobs' = [jobs EXCEPT ![j].st = "fin"]
    /\ UNCHANGED <<jobSideVars, tableVars, turnEnded, promptsAfter>>

\* lines 248-249 and 266-270: final status (or the error report, which fails
\* too on a closed connection), then finally: clear_current_process
handle_tcpdump_finish(j) ==
    /\ ~callback_pending
    /\ jobs[j].kind = "tcpdump"
    /\ jobs[j].st = "fin"
    /\ ~jobs[j].cancelReq
    /\ IF wsOpen
          THEN /\ jobs' = [jobs EXCEPT ![j] = Finished(@, "ok")]
          ELSE /\ jobs' = [jobs EXCEPT ![j] = Finished(@, "error")]
    /\ clear_current_process
    /\ TurnEnds
    /\ UNCHANGED jobSideVars

\* lines 263-265 and 269-270: reader_task.cancel(), the interrupted message,
\* raise, finally: clear_current_process
TcpdumpInterrupted(j, js) ==
    /\ IF wsOpen
          THEN /\ jobs' = [js EXCEPT ![j] = Finished(@, "cancelled")]
          ELSE /\ jobs' = [js EXCEPT ![j] = Finished(@, "error")]
    /\ clear_current_process
    /\ TurnEnds

\* lines 250-262: CancelledError at an await of the try block
handle_tcpdump_cancelled(j) ==
    /\ ~callback_pending
    /\ jobs[j].kind = "tcpdump"
    /\ jobs[j].st \in {"wait", "fin"}
    /\ jobs[j].cancelReq
    /\ LET proc == CURRENT_RUNNING_PROCESS
       IN  IF proc # 0 /\ running(proc)
              THEN \* proc.terminate(); await wait_for(proc.wait(), 3.0)
                   /\ jobs' = [jobs EXCEPT ![proc].proc = Terminate(@), ![j].st = "cterm",
                                           ![j].target = proc, ![j].cancelReq = FALSE]
                   /\ UNCHANGED <<tableVars, turnEnded, promptsAfter>>
              ELSE TcpdumpInterrupted(j, jobs)
    /\ UNCHANGED jobSideVars

\* asyncio.TimeoutError after 3.0 s: proc.kill(); await proc.wait()
handle_tcpdump_kill(j) ==
    /\ ~callback_pending
    /\ jobs[j].kind = "tcpdump"
    /\ jobs[j].st = "cterm"
    /\ jobs[jobs[j].target].proc \in {"run", "term"}
    /\ jobs' = [jobs EXCEPT ![jobs[j].target].proc = "kill"]
    /\ UNCHANGED <<jobSideVars, tableVars, turnEnded, promptsAfter>>

handle_tcpdump_terminated(j) ==
    /\ ~callback_pending
    /\ jobs[j].kind = "tcpdump"
    /\ jobs[j].st = "cterm"
    /\ jobs[jobs[j].target].proc = "exit"
    /\ TcpdumpInterrupted(j, jobs)
    /\ UNCHANGED jobSideVars

\* ---- core/systemctl_runner.py handle_systemctl
\* lines 64-96: validation, spawn, set_current_process(ws, process)
handle_systemctl_start(j) ==
    /\ ~callback_pending
    /\ jobs[j].kind = "systemctl"
    /\ jobs[j].st = "start"
    /\ ~jobs[j].cancelReq
    /\ IF ~wsOpen
          THEN /\ jobs' = [jobs EXCEPT ![j] = Finished(@, "error")]
               /\ TurnEnds
               /\ UNCHANGED tableVars
          ELSE \E c \in SpawnChoices :
                 CASE c = "reject" ->
                        /\ jobs' = [jobs EXCEPT ![j] = Finished(@, "ok")]
                        /\ TurnEnds
                        /\ UNCHANGED tableVars
                   [] c = "spawn" ->
                        /\ jobs' = [jobs EXCEPT ![j].st = "wait", ![j].proc = "run"]
                        /\ set_current_process(j, 0)
                        /\ TurnSame
                   [] OTHER ->
                        \* create_subprocess_exec raises inside the try block:
                        \* except Exception reports it, finally clears
                        /\ jobs' = [jobs EXCEPT ![j].st = "fin", ![j].pend = "ok"]
                        /\ clear_current_process
                        /\ TurnSame
    /\ UNCHANGED jobSideVars

\* lines 98-101, 112-113: stdout is exhausted and process.wait() returns;
\* finally: clear_current_process, then the await of the final send
handle_systemctl_exited(j) ==
    /\ ~callback_pending
    /\ jobs[j].kind = "systemctl"
    /\ jobs[j].st = "wait"
    /\ ~jobs[j].cancelReq
    /\ jobs[j].proc = "exit"
    /\ jobs' = [jobs EXCEPT ![j].st = "fin", ![j].pend = "ok"]
    /\ clear_current_process
    /\ UNCHANGED <<jobSideVars, turnEnded, promptsAfter>>

\* line 99 on a closed connection: send_text raises, the report of line 111
\* raises, finally clears and its send raises as well
handle_systemctl_output_fails(j) ==
    /\ ~callback_pending
    /\ jobs[j].kind = "systemctl"
    /\ jobs[j].st = "wait"
    /\ ~jobs[j].cancelReq
    /\ running(j)
    /\ ~wsOpen
    /\ jobs' = [jobs EXCEPT ![j] = Finished(@, "error")]
    /\ clear_current_process
    /\ TurnEnds
    /\ UNCHANGED jobSideVars

\* lines 103-109: CancelledError while streaming or waiting
handle_systemctl_cancelled(j) ==
    /\ ~callback_pending
    /\ jobs[j].kind = "systemctl"
    /\ jobs[j].st = "wait"
    /\ jobs[j].cancelReq
    /\ LET proc == CURRENT_RUNNING_PROCESS
       IN  IF proc # 0 /\ running(proc)
              THEN \* proc.terminate(); await proc.wait()
                   /\ jobs' = [jobs EXCEPT ![proc].proc = Terminate(@), ![j].st = "cterm",
                                           ![j].target = proc, ![j].cancelReq = FALSE]
                   /\ UNCHANGED tableVars
              ELSE /\ jobs' = [jobs EXCEPT ![j].st = "fin", ![j].pend = "cancelled",
                                           ![j].cancelReq = FALSE]
                   /\ clear_current_process
    /\ UNCHANGED <<jobSideVars, turnEnded, promptsAfter>>

\* lines 107-109, 112-113: proc.wait() returns in the cancel handler
handle_systemctl_terminated(j) ==
    /\ ~callback_pending
    /\ jobs[j].kind = "systemctl"
    /\ jobs[j].st = "cterm"
    /\ jobs[jobs[j].target].proc = "exit"
    /\ jobs' = [jobs EXCEPT ![j].st = "fin", ![j].pend = "cancelled"]
    /\ clear_current_process
    /\ UNCHANGED <<jobSideVars, turnEnded, promptsAfter>>

\* line 114: the final send inside finally
handle_systemctl_finish(j) ==
    /\ ~callback_pending
    /\ jobs[j].kind = "systemctl"
    /\ jobs[j].st = "fin"
    /\ IF jobs[j].cancelReq
          THEN /\ jobs' = [jobs EXCEPT ![j] = Finished(@, "cancelled")]
          ELSE IF wsOpen
                  THEN /\ jobs' = [jobs EXCEPT ![j] = Finished(@, jobs[j].pend)]
                  ELSE /\ jobs' = [jobs EXCEPT ![j] = Finished(@, "error")]
    /\ TurnEnds
    /\ UNCHANGED <<jobSideVars, tableVars>>

\* ---- core/iptables_runner.py handle_iptables and run_command
\* lines 31-100 and 16-21: validation, spawn; the process is not registered
handle_iptables_start(j) ==
    /\ ~callback_pending
    /\ jobs[j].kind = "iptables"
    /\ jobs[j].st = "start"
    /\ ~jobs[j].cancelReq
    /\ IF ~wsOpen
          THEN /\ jobs' = [jobs EXCEPT ![j] = Finished(@, "error")]
               /\ TurnEnds
          ELSE \E c \in SpawnChoices :
                 CASE c = "reject" ->
                        /\ jobs' = [jobs EXCEPT ![j] = Finished(@, "ok")]
                        /\ TurnEnds
                   [] c = "spawn" ->
                        /\ jobs' = [jobs EXCEPT ![j].st = "wait", ![j].proc = "run"]
                        /\ TurnSame
                   [] OTHER ->
                        \* except Exception of run_command reports the error
                        /\ jobs' = [jobs EXCEPT ![j] = Finished(@, "ok")]
                        /\ TurnEnds
    /\ UNCHANGED <<jobSideVars, tableVars>>

\* lines 23-26: stdout is exhausted and process.wait() returns
handle_iptables_exited(j) ==
    /\ ~callback_pending
    /\ jobs[j].kind = "iptables"
    /\ jobs[j].st = "wait"
    /\ ~jobs[j].cancelReq
    /\ jobs[j].proc = "exit"
    /\ jobs' = [jobs EXCEPT ![j] = Finished(@, "ok")]
    /\ TurnEnds
    /\ UNCHANGED <<jobSideVars, tableVars>>

\* line 24 on a closed connection: send_text raises and so does the report
\* of line 28
handle_iptables_output_fails(j) ==
    /\ ~callback_pending
    /\ jobs[j].kind = "iptables"
    /\ jobs[j].st = "wait"
    /\ ~jobs[j].cancelReq
    /\ running(j)
    /\ ~wsOpen
    /\ jobs' = [jobs EXCEPT ![j] = Finished(@, "error")]
    /\ TurnEnds
    /\ UNCHANGED <<jobSideVars, tableVars>>

\* CancelledError is no Exception: it leaves run_command and handle_iptables;
\* the subprocess is not signalled
handle_iptables_cancelled(j) ==
    /\ ~callback_pending
    /\ jobs[j].kind = "iptables"
    /\ jobs[j].st = "wait"
    /\ jobs[j].cancelReq
    /\ jobs' = [jobs EXCEPT ![j] = Finished(@, "cancelled")]
    /\ TurnEnds
    /\ UNCHANGED <<jobSideVars, tableVars>>

\* ---- roles/admin_handler.py done_callback and send_prompt
done_callback(j) ==
    /\ UNCHANGED <<nInputs, cmd, restVars>>
    /\ done(j)
    /\ jobs[j].cb = "pending"
    /\ running_task' = 0
    /\ need_prompt' = FALSE
    /\ promptTasks' = promptTasks + 1
    /\ jobs' = [jobs EXCEPT ![j] = Released([@ EXCEPT !.cb = "ran"], j)]
    /\ UNCHANGED <<mainPc, username, awaited, tableVars, ipcProc, ipcTask, nextJob,
                   wsOpen, reply, turnEnded, promptsAfter>>

\* the task created by asyncio.create_task(send_prompt())
send_prompt_task ==
    /\ UNCHANGED <<nInputs, cmd, restVars>>
    /\ promptTasks > 0
    /\ promptTasks' = promptTasks - 1
    /\ IF wsOpen
          THEN promptsAfter' = CountUp(promptsAfter)
          ELSE UNCHANGED promptsAfter
    /\ UNCHANGED <<mainVars, username, tableVars, jobs, nextJob, wsOpen, reply, turnEnded>>

\* the client goes away or the transport fails
Disconnect ==
    /\ UNCHANGED <<nInputs, cmd, restVars>>
    /\ wsOpen
    /\ wsOpen' = FALSE
    /\ UNCHANGED <<mainVars, username, tableVars, jobs, nextJob, promptTasks, reply, turnEnded, promptsAfter>>

MainStep ==
    \/ MainLoopTop
    \/ MainRecvClosed
    \/ MainInterruptLive
    \/ MainIpcProcExited
    \/ MainIpcTimeout
    \/ MainIpcAwaitDone
    \/ MainAfterInterrupt
    \/ MainAwaitDone
    \/ MainInterruptIdle
    \/ MainBusy
    \/ MainTab
    \/ MainSignout
    \/ MainInline
    \/ MainInlineRaises
    \/ MainSetNeed
    \/ MainDispatch

JobStep(j) ==
    \/ JobCancelledAtStart(j)
    \/ ProcExit(j)
    \/ handle_tcpdump_start(j)
    \/ handle_tcpdump_exited(j)
    \/ handle_tcpdump_finish(j)
    \/ handle_tcpdump_cancelled(j)
    \/ handle_tcpdump_kill(j)
    \/ handle_tcpdump_terminated(j)
    \/ handle_systemctl_start(j)
    \/ handle_systemctl_exited(j)
    \/ handle_systemctl_output_fails(j)
    \/ handle_systemctl_cancelled(j)
    \/ handle_systemctl_terminated(j)
    \/ handle_systemctl_finish(j)
    \/ handle_iptables_start(j)
    \/ handle_iptables_exited(j)
    \/ handle_iptables_output_fails(j)
    \/ handle_iptables_cancelled(j)
    \/ done_callback(j)

SessionNext ==
    \/ MainStep
    \/ \E j \in JobIds : JobStep(j)
    \/ send_prompt_task
    \/ Disconnect

SessionSpec == SessionInit /\ [][SessionNext]_vars

\* ------------------------------------------------------ session properties
\* the step in which the session loop accepts an input line
AcceptStep == mainPc = "recv" /\ nInputs' = nInputs + 1

\* C1: at most one job task started by the session is unfinished at any
\* instant
C1_AtMostOneLiveJob == Cardinality({j \in JobIds : unfinished(j)}) <= 1

\* C2: when an input line is accepted after a turn has ended, exactly one
\* prompt has been sent since the end of that turn
C2_OnePromptPerTurn == [][(AcceptStep /\ turnEnded) => promptsAfter = 1]_vars

\* C3: when the handling of an `__INTERRUPT__` received with a live job
\* completes (the `await running_task` of line 41 returns and the loop goes
\* on), the subprocess of the interrupted job has exited, running_task is None
\* and the process table holds no entry
C3_InterruptReclaims ==
    [][(mainPc = "int_await" /\ mainPc' = "recv")
          => /\ ~running(awaited)
             /\ running_task' = 0
             /\ CURRENT_RUNNING_PROCESS' = 0
             /\ CURRENT_RUNNING_TASK' = 0]_vars

\* C4: handling `__INTERRUPT__` never raises out of the session loop with the
\* connection open: line 39 never runs with running_task = None
C4_InterruptNeverRaises == mainPc # "crashed"

\* C5: `__INTERRUPT__` accepted with no live job is answered with the 'no
\* running command' message and changes neither running_task nor the process
\* table nor any job or subprocess; accepted with a live job but with neither
\* process nor task registered, interrupt_current_process returns False:
\* nothing is sent, no subprocess is signalled, the table stays empty and the
\* loop goes straight on to cancel and await running_task
C5_IdleInterruptIsNoOp ==
    [][(mainPc = "recv" /\ cmd' = "__INTERRUPT__")
          => /\ ~job_live
                  => /\ reply' = "no_running_command"
                     /\ mainPc' = "set_need"
                     /\ UNCHANGED <<running_task, tableVars, jobs>>
             /\ (job_live /\ CURRENT_RUNNING_PROCESS = 0 /\ CURRENT_RUNNING_TASK = 0)
                  => /\ reply' = ""
                     /\ mainPc' = "int_await"
                     /\ \A j \in JobIds : jobs'[j].proc = jobs[j].proc
                     /\ UNCHANGED <<running_task, tableVars>>]_vars

\* the idle `__INTERRUPT__` was answered while running_task still held a
\* finished task whose done-callback had not run
C5_Witness ==
    /\ cmd = "__INTERRUPT__"
    /\ reply = "no_running_command"
    /\ running_task # 0

\* C6: a finished job leaves no process-table entry behind (the table is empty
\* whenever the session has no unfinished job, and never holds the process or
\* task of a finished job), running_task is None once the done-callback of
\* the finished job has run, and a line is rejected as 'already running' only
\* while running_task is an unfinished job
C6_FinishedJobIsCleared ==
    [][/\ \A j \in JobIds :
            done(j)' => /\ CURRENT_RUNNING_PROCESS' # j
                        /\ CURRENT_RUNNING_TASK' # j
                        /\ jobs'[j].cb = "ran" => running_task' # j
       /\ (\A j \in JobIds : ~unfinished(j)')
            => CURRENT_RUNNING_PROCESS' = 0 /\ CURRENT_RUNNING_TASK' = 0
       /\ (AcceptStep /\ reply' = "already_running")
            => running_task # 0 /\ unfinished(running_task)]_vars

\* a systemctl job that had registered its process ended with an error (its
\* final send failed on the closed connection); the table is empty and the
\* callback has reset running_task
C6_Witness ==
    \E j \in JobIds :
        /\ jobs[j].kind \in {"tcpdump", "systemctl"}
        /\ done(j)
        /\ jobs[j].proc = "exit"
        /\ jobs[j].outcome = "error"
        /\ jobs[j].cb = "ran"
        /\ running_task = 0
        /\ CURRENT_RUNNING_PROCESS = 0
        /\ CURRENT_RUNNING_TASK = 0

\* -------------------------------------------- webcli_server.py RateLimiter
Min(a, b) == IF a < b THEN a ELSE b
Max(a, b) == IF a > b THEN a ELSE b

\* _purge_old popping nothing
purge_old_Kept(fail_times, t) == fail_times

\* _purge_old: pop from the left while the oldest failure is before the cutoff
RECURSIVE purge_old(_, _)
purge_old(fail_times, t) ==
    IF fail_times # <<>> /\ Head(fail_times) < t - AUTH_WINDOW
       THEN purge_old(Tail(fail_times), t)
       ELSE fail_times

\* check_blocked: seconds remaining if blocked, else 0
check_blocked(states, key, t) ==
    LET st == states[key]
    IN  IF ~st.present
           THEN 0
           ELSE IF st.lock_until > t THEN st.lock_until - t ELSE 0

\* register_success leaving the escalation counter of the key in place
register_success_KeepsLockouts(states, key) ==
    IF states[key].present
       THEN [states EXCEPT ![key].fail_times = <<>>, ![key].lock_until = 0]
       ELSE states

\* register_success: _states.pop(key)
register_success(states, key) ==
    IF states[key].present
       THEN [states EXCEPT ![key] = NoKeyState]
       ELSE states

\* the locked branch of register_failure restarting the lockout
keep_lockout_Restarted(states, key, st, t) ==
    [states |-> [states EXCEPT ![key] = [st EXCEPT !.lock_until = t + AUTH_LOCKOUT_BASE]],
     backoff |-> 0,
     lock |-> AUTH_LOCKOUT_BASE]

\* the locked branch of register_failure queueing the failure
keep_lockout_Counts(states, key, st, t) ==
    [states |-> [states EXCEPT ![key] = [st EXCEPT !.fail_times = Append(@, t)]],
     backoff |-> 0,
     lock |-> st.lock_until - t]

\* register_failure, lines 236-238: the key is locked, keep it
keep_lockout(states, key, st, t) ==
    [states |-> [states EXCEPT ![key] = st],
     backoff |-> 0,
     lock |-> st.lock_until - t]

\* the lockout branch of register_failure without the escalation
trigger_lockout_Flat(states, key, st, t, backoff) ==
    [states |-> [states EXCEPT ![key] = [st EXCEPT !.lock_until = t + AUTH_LOCKOUT_BASE,
                                                   !.lockouts = @ + 1,
                                                   !.fail_times = <<>>]],
     backoff |-> backoff,
     lock |-> AUTH_LOCKOUT_BASE]

\* the lockout branch of register_failure starting the count of lockouts anew
trigger_lockout_Forgets(states, key, st, t, backoff) ==
    [states |-> [states EXCEPT ![key] = [st EXCEPT !.lockouts = 1,
                                                   !.lock_until = t + AUTH_LOCKOUT_BASE,
                                                   !.fail_times = <<>>]],
     backoff |-> backoff,
     lock |-> AUTH_LOCKOUT_BASE]

\* register_failure, lines 251-258: the threshold is reached
trigger_lockout(states, key, st, t, backoff) ==
    LET duration == Min(AUTH_LOCKOUT_BASE * (2 ^ st.lockouts), AUTH_LOCKOUT_MAX)
    IN  [states |-> [states EXCEPT ![key] = [st EXCEPT !.lockouts = @ + 1,
                                                       !.lock_until = t + duration,
                                                       !.fail_times = <<>>]],
         backoff |-> backoff,
         lock |-> duration]

\* register_failure working on a state of the key read before another
\* session's failure was stored: the earlier failures of the window are lost
register_failure_LostUpdate(states, key, t, max_fails, r) ==
    LET st == IF states[key].present
                 THEN [states[key] EXCEPT !.fail_times = <<>>]
                 ELSE KeyState
    IN  IF st.lock_until > t
           THEN keep_lockout(states, key, states[key], t)
           ELSE LET base == Min(AUTH_BACKOFF_BASE, AUTH_BACKOFF_MAX)
                    backoff == Max(0, base + (r * base) \div JitterDiv)
                IN  [states |-> [states EXCEPT ![key] = [st EXCEPT !.fail_times = <<t>>]],
                     backoff |-> backoff,
                     lock |-> 0]

\* register_failure of a limiter with threshold max_fails at time t; r is the
\* draw of random.random() * 2 - 1.  The result holds the new _states and the
\* pair (backoff, lock) the call returns
register_failure(states, key, t, max_fails, r) ==
    LET st == IF states[key].present THEN states[key] ELSE KeyState
    IN  IF st.lock_until > t
           THEN keep_lockout(states, key, st, t)
           ELSE LET fail_times == purge_old(Append(st.fail_times, t), t)
                    n == Len(fail_times)
                    base == Min(AUTH_BACKOFF_BASE * (2 ^ Max(0, n - 1)), AUTH_BACKOFF_MAX)
                    jitter == (r * base) \div JitterDiv
                    backoff == Max(0, base + jitter)
                    counted == [st EXCEPT !.fail_times = fail_times]
                IN  IF n >= max_fails
                       THEN trigger_lockout(states, key, counted, t, backoff)
                       ELSE [states |-> [states EXCEPT ![key] = counted],
                             backoff |-> backoff,
                             lock |-> 0]

\* ------------------------------------- webcli_server.py websocket_endpoint
loginLocals == <<login_username, delay, lock_ip, lock_user>>

\* websocket.send_text of the login loop: msg goes to client c; wait is the
\* number of seconds the message was built from (0 for a message without one)
Send(c, msg, wait) ==
    /\ sent' = msg
    /\ sent_to' = c
    /\ sent_wait' = wait
    /\ rehash' = "none"
SendNothing ==
    /\ sent' = ""
    /\ sent_to' = ""
    /\ sent_wait' = 0
    /\ rehash' = "none"

\* the blocked check that looks at the IP key alone
blocked_reply_IpOnly(ip_block, user_block) ==
    IF ip_block > 0 THEN "blocked_ip" ELSE ""

\* lines 397-412: the message sent for a blocked attempt, "" when neither key
\* is blocked, and the wait it reports
blocked_reply(ip_block, user_block) ==
    IF ip_block > 0
       THEN "blocked_ip"
       ELSE IF user_block > 0 THEN "blocked_user" ELSE ""
blocked_wait(ip_block, user_block) ==
    IF ip_block > 0 THEN ip_block ELSE user_block

\* lines 430-436 and 457-464: the message sent for a failed attempt
failure_reply(known, lock_wait) ==
    IF lock_wait > 0
       THEN IF known THEN "too_many_attempts" ELSE "too_many_attempts_ip"
       ELSE "authentication_failed"

\* lines 391-415: the username is read, both keys are checked, and either the
\* wait is reported or the password prompt is sent
LoginUsername(c) ==
    /\ loginPc[c] = "username"
    /\ \E name \in LoginNames :
          LET ip_block == check_blocked(ip_states, client_ip[c], now)
              user_block == check_blocked(user_states, name, now)
              msg == blocked_reply(ip_block, user_block)
          IN  IF msg # ""
                 THEN /\ Send(c, msg, blocked_wait(ip_block, user_block))
                      /\ UNCHANGED <<loginPc, login_username>>
                 ELSE /\ Send(c, "password_prompt", 0)
                      /\ loginPc' = [loginPc EXCEPT ![c] = "password"]
                      /\ login_username' = [login_username EXCEPT ![c] = name]
    /\ UNCHANGED <<now, ip_states, user_states, client_ip, delay, lock_ip, lock_user,
                   sessionVars, ret>>

\* lines 455-465 and 429-436 after the sleep, or at once when there is no
\* delay: the reply of a failed attempt, and back to the username prompt
FailureReply(c, known, lock_wait) ==
    /\ Send(c, failure_reply(known, lock_wait), lock_wait)
    /\ loginPc' = [loginPc EXCEPT ![c] = "username"]
    /\ login_username' = [login_username EXCEPT ![c] = ""]
    /\ delay' = [delay EXCEPT ![c] = 0]
    /\ lock_ip' = [lock_ip EXCEPT ![c] = 0]
    /\ lock_user' = [lock_user EXCEPT ![c] = 0]

\* what follows register_failure: `if delay > 0: await asyncio.sleep(delay)`
AfterFailure(c, known, d, l_ip, l_user) ==
    IF d > 0
       THEN /\ loginPc' = [loginPc EXCEPT ![c] = "sleep"]
            /\ delay' = [delay EXCEPT ![c] = d]
            /\ lock_ip' = [lock_ip EXCEPT ![c] = l_ip]
            /\ lock_user' = [lock_user EXCEPT ![c] = l_user]
            /\ SendNothing
            /\ UNCHANGED login_username
       ELSE FailureReply(c, known, Max(l_ip, l_user))

\* the unknown-user path registering the failure with the username limiter too
UnknownUser_ChargesUser(c, name, ip, r_ip) ==
    LET f == register_failure(ip_states, ip, now, AUTH_MAX_FAILS_PER_IP, r_ip)
        f_user == register_failure(user_states, name, now, AUTH_MAX_FAILS_PER_USER, 0)
    IN  /\ ip_states' = f.states
        /\ user_states' = f_user.states
        /\ AfterFailure(c, FALSE, f.backoff, f.lock, 0)

\* lines 423-437: unknown user, counted against the IP only
UnknownUser(c, name, ip, r_ip) ==
    LET f == register_failure(ip_states, ip, now, AUTH_MAX_FAILS_PER_IP, r_ip)
    IN  /\ ip_states' = f.states
        /\ UNCHANGED user_states
        /\ AfterFailure(c, FALSE, f.backoff, f.lock, 0)

\* the wrong-password path reporting the lock of the IP key alone
WrongPassword_IpLockOnly(c, name, ip, r_ip, r_user) ==
    LET f_ip == register_failure(ip_states, ip, now, AUTH_MAX_FAILS_PER_IP, r_ip)
        f_user == register_failure(user_states, name, now, AUTH_MAX_FAILS_PER_USER, r_user)
    IN  /\ ip_states' = f_ip.states
        /\ user_states' = f_user.states
        /\ AfterFailure(c, TRUE, Max(f_ip.backoff, f_user.backoff), f_ip.lock, 0)

\* lines 446-465: wrong password of a known user, counted against both keys
WrongPassword(c, name, ip, r_ip, r_user) ==
    LET f_ip == register_failure(ip_states, ip, now, AUTH_MAX_FAILS_PER_IP, r_ip)
        f_user == register_failure(user_states, name, now, AUTH_MAX_FAILS_PER_USER, r_user)
    IN  /\ ip_states' = f_ip.states
        /\ user_states' = f_user.states
        /\ AfterFailure(c, TRUE, Max(f_ip.backoff, f_user.backoff), f_ip.lock, f_user.lock)

\* lines 467-475: check_needs_rehash is false, the upgraded hash is written
\* to pass.json, or the upgrade raises (the file cannot be written)
RehashOutcomes == {"not_needed", "persisted", "failed"}

\* the verified password with a failing hash upgrade raising out of
\* websocket_endpoint
LoginVerified_RehashFatal(c, name, ip, outcome) ==
    IF outcome = "failed"
       THEN /\ loginPc' = [loginPc EXCEPT ![c] = "closed"]
            /\ login_username' = [login_username EXCEPT ![c] = ""]
            /\ sent' = ""
            /\ sent_to' = ""
            /\ sent_wait' = 0
            /\ rehash' = outcome
            /\ UNCHANGED <<ip_states, user_states, delay, lock_ip, lock_user>>
       ELSE /\ ip_states' = register_success(ip_states, ip)
            /\ user_states' = register_success(user_states, name)
            /\ sent' = "welcome"
            /\ sent_to' = c
            /\ sent_wait' = 0
            /\ rehash' = outcome
            /\ loginPc' = [loginPc EXCEPT ![c] = "authed"]
            /\ UNCHANGED loginLocals

\* lines 467-495: the password is verified; the hash upgrade is tried and
\* its failure swallowed, both keys are cleared, the welcome is sent and the
\* session is handed to the role handler
LoginVerified(c, name, ip, outcome) ==
    /\ ip_states' = register_success(ip_states, ip)
    /\ user_states' = register_success(user_states, name)
    /\ sent' = "welcome"
    /\ sent_to' = c
    /\ sent_wait' = 0
    /\ rehash' = outcome
    /\ loginPc' = [loginPc EXCEPT ![c] = "authed"]
    /\ UNCHANGED loginLocals

\* lines 416-482: the password is read and verified (ok: it is the right one)
LoginPassword(c) ==
    /\ loginPc[c] = "password"
    /\ LET name == login_username[c]
           ip == client_ip[c]
       IN  \E ok \in BOOLEAN, r_ip \in Jitter, r_user \in Jitter :
             IF name \notin USERS
                THEN UnknownUser(c, name, ip, r_ip)
                ELSE IF ~ok
                        THEN WrongPassword(c, name, ip, r_ip, r_user)
                        ELSE \E outcome \in RehashOutcomes :
                                LoginVerified(c, name, ip, outcome)
    /\ UNCHANGED <<now, client_ip, sessionVars, ret>>

\* asyncio.sleep(delay) returns
LoginAfterSleep(c) ==
    /\ loginPc[c] = "sleep"
    /\ FailureReply(c, login_username[c] \in USERS, Max(lock_ip[c], lock_user[c]))
    /\ UNCHANGED <<now, ip_states, user_states, client_ip, sessionVars, ret>>

\* lines 494-509: the role handler returns True (signout), back to the login
LoginSignout(c) ==
    /\ loginPc[c] = "authed"
    /\ loginPc' = [loginPc EXCEPT ![c] = "username"]
    /\ login_username' = [login_username EXCEPT ![c] = ""]
    /\ Send(c, "logged_out", 0)
    /\ UNCHANGED <<now, ip_states, user_states, client_ip, delay, lock_ip, lock_user,
                   sessionVars, ret>>

\* lines 505-512: the handler returns False or the client disconnects
LoginClosed(c) ==
    /\ loginPc[c] \in {"username", "password", "authed"}
    /\ loginPc' = [loginPc EXCEPT ![c] = "closed"]
    /\ login_username' = [login_username EXCEPT ![c] = ""]
    /\ SendNothing
    /\ UNCHANGED <<now, ip_states, user_states, client_ip, delay, lock_ip, lock_user,
                   sessionVars, ret>>

\* the monotonic clock advances
Tick ==
    /\ now < MaxTime
    /\ now' = now + 1
    /\ SendNothing
    /\ UNCHANGED <<ip_states, user_states, client_ip, loginPc, loginLocals, sessionVars,
                   ret>>

\* the login loops of two clients; the admin session stands still
LoginInit ==
    /\ LoginStart
    /\ SessionStart
    /\ ConnStart
    /\ ValidatorStart
    /\ username = "king"

LoginNext ==
    \/ \E c \in Clients :
          \/ LoginUsername(c)
          \/ LoginPassword(c)
          \/ LoginAfterSleep(c)
          \/ LoginSignout(c)
          \/ LoginClosed(c)
    \/ Tick

LoginSpec == LoginInit /\ [][LoginNext]_vars

\* ----------------------------------- the two limiters driven call by call
Limiters == {"ip", "user"}
key_of(lim) == IF lim = "ip" THEN "ip1" ELSE "king"
max_fails_of(lim) == IF lim = "ip" THEN AUTH_MAX_FAILS_PER_IP ELSE AUTH_MAX_FAILS_PER_USER
states_of(lim) == IF lim = "ip" THEN ip_states ELSE user_states

\* the _states of limiter lim become states
Stored(lim, states) ==
    IF lim = "ip"
       THEN ip_states' = states /\ UNCHANGED user_states
       ELSE user_states' = states /\ UNCHANGED ip_states

Called(op, lim, backoff, value) ==
    ret' = [op |-> op, limiter |-> lim, key |-> key_of(lim),
            prior |-> states_of(lim)[key_of(lim)], at |-> now,
            backoff |-> backoff, value |-> value]

CallCheckBlocked(lim) ==
    /\ Called("check_blocked", lim, 0, check_blocked(states_of(lim), key_of(lim), now))
    /\ UNCHANGED <<now, ip_states, user_states, clientVars, sessionVars>>

CallRegisterFailure(lim) ==
    /\ \E r \in Jitter :
          LET f == register_failure(states_of(lim), key_of(lim), now, max_fails_of(lim), r)
          IN  /\ Stored(lim, f.states)
              /\ Called("register_failure", lim, f.backoff, f.lock)
    /\ UNCHANGED <<now, clientVars, sessionVars>>

CallRegisterSuccess(lim) ==
    /\ Stored(lim, register_success(states_of(lim), key_of(lim)))
    /\ Called("register_success", lim, 0, 0)
    /\ UNCHANGED <<now, clientVars, sessionVars>>

LimiterInit ==
    /\ LoginStart
    /\ SessionStart
    /\ ConnStart
    /\ ValidatorStart
    /\ username = "king"

LimiterNext ==
    \/ \E lim \in Limiters :
          \/ CallCheckBlocked(lim)
          \/ CallRegisterFailure(lim)
          \/ CallRegisterSuccess(lim)
    \/ Tick

LimiterSpec == LimiterInit /\ [][LimiterNext]_vars

\* ------------------------------------------------- core/tcpdump_runner.py
\* A token is the sequence of its characters.
MAX_TOKENS == 80
MAX_TOKEN_LEN == 256
MAX_CMD_CHARS == 4096

Lower == {"a", "b", "c", "d", "e", "f", "g", "h", "i", "j", "k", "l", "m", "n", "o", "p", "q", "r", "s", "t", "u", "v", "w", "x", "y", "z"}
Upper == {"A", "B", "C", "D", "E", "F", "G", "H", "I", "J", "K", "L", "M", "N", "O", "P", "Q", "R", "S", "T", "U", "V", "W", "X", "Y", "Z"}
Digit == {"0", "1", "2", "3", "4", "5", "6", "7", "8", "9"}
AlNum == Lower \cup Upper \cup Digit

ALLOWED_FLAGS ==
    {<<"-", "i">>, <<"-", "n">>, <<"-", "n", "n">>, <<"-", "v">>,
     <<"-", "v", "v">>, <<"-", "v", "v", "v">>, <<"-", "c">>, <<"-", "s">>,
     <<"-", "X">>, <<"-", "X", "X">>, <<"-", "A">>, <<"-", "e">>,
     <<"-", "t", "t">>, <<"-", "t", "t", "t">>, <<"-", "q">>, <<"-", "Q">>,
     <<"-", "U">>, <<"-", "E">>, <<"-", "p">>, <<"-", "Z">>}
FLAGS_WITH_ARG ==
    {<<"-", "i">>, <<"-", "c">>, <<"-", "s">>, <<"-", "w">>, <<"-", "r">>,
     <<"-", "E">>, <<"-", "Q">>, <<"-", "Z">>}
ALLOWED_KEYWORDS ==
    {<<"p", "o", "r", "t">>, <<"h", "o", "s", "t">>, <<"s", "r", "c">>,
     <<"d", "s", "t">>, <<"a", "n", "d">>, <<"o", "r">>, <<"n", "o", "t">>,
     <<"i", "p">>, <<"i", "p", "6">>, <<"t", "c", "p">>, <<"u", "d", "p">>,
     <<"i", "c", "m", "p">>}
ALLOWED_WRITE_DIR == <<"/", "v", "a", "r", "/", "l", "o", "g", "/", "w", "e", "b", "c", "l", "i">>

\* the grave accent (U+0060), which a string of this notation cannot hold
Backtick == "grave accent"
\* the characters of the class that re.search looks for in line 92
MetaChars == {";", "&", "|", Backtick, "$", "<", ">", "*", "?", "(", ")", "{", "}", "[", "]"}
\* the classes of RE_SAFE_TOKEN, RE_IFACE, the bare-token pattern of line
\* 174 and ALLOWED_WRITE_BASENAME
SafeChars == AlNum \cup {".", "_", ":", "@", "-", "/"}
IfaceChars == AlNum \cup {".", "_", ":", "-"}
BareChars == AlNum \cup {".", "-"}
BasenameChars == AlNum \cup {".", "_", "-"}

\* what a pattern ending in $ is matched against: $ also matches just
\* before a newline that ends the string
BeforeDollar(tok) ==
    IF tok # <<>> /\ tok[Len(tok)] = "\n" THEN SubSeq(tok, 1, Len(tok) - 1) ELSE tok

\* re.match(r"^[class]{lo,hi}$", tok)
MatchClass(tok, class, lo, hi) ==
    LET body == BeforeDollar(tok)
    IN  /\ Len(body) >= lo
        /\ Len(body) <= hi
        /\ \A i \in DOMAIN body : body[i] \in class

has_prefix(chars, prefix) ==
    /\ Len(prefix) <= Len(chars)
    /\ SubSeq(chars, 1, Len(prefix)) = prefix

\* str.split(sep) for a separator of one character
RECURSIVE Split(_, _)
Split(chars, sep) ==
    IF \A i \in DOMAIN chars : chars[i] # sep
       THEN <<chars>>
       ELSE LET k == CHOOSE i \in DOMAIN chars :
                        chars[i] = sep /\ \A j \in 1..(i - 1) : chars[j] # sep
            IN  <<SubSeq(chars, 1, k - 1)>> \o Split(SubSeq(chars, k + 1, Len(chars)), sep)

\* sep.join(parts)
RECURSIVE Join(_, _)
Join(parts, sep) ==
    IF parts = <<>>
       THEN <<>>
       ELSE IF Len(parts) = 1
               THEN parts[1]
               ELSE parts[1] \o <<sep>> \o Join(Tail(parts), sep)

RE_NUMBER(tok) == MatchClass(tok, Digit, 1, Len(tok))
RE_IFACE(tok) == MatchClass(tok, IfaceChars, 1, Len(tok))
RE_SAFE_TOKEN(tok) == MatchClass(tok, SafeChars, 1, Len(tok))
RE_USERNAME(tok) ==
    LET body == BeforeDollar(tok)
    IN  /\ body # <<>>
        /\ body[1] \in Lower \cup {"_"}
        /\ Len(body) <= 32
        /\ \A i \in 2..Len(body) : body[i] \in Lower \cup Digit \cup {"_", "-"}
RE_IPV4(tok) ==
    LET parts == Split(BeforeDollar(tok), ".")
    IN  /\ Len(parts) = 4
        /\ \A i \in 1..4 : /\ Len(parts[i]) \in 1..3
                           /\ \A k \in DOMAIN parts[i] : parts[i][k] \in Digit


\* os.path.normpath: initial is the number of leading slashes kept,
\* new_comps the components that survive "." and ".." resolution
RECURSIVE new_comps(_, _, _)
new_comps(comps, kept, initial) ==
    IF comps = <<>>
       THEN kept
       ELSE LET comp == Head(comps)
            IN  IF comp = <<>> \/ comp = <<".">>
                   THEN new_comps(Tail(comps), kept, initial)
                   ELSE IF \/ comp # <<".", ".">>
                           \/ (initial = 0 /\ kept = <<>>)
                           \/ (kept # <<>> /\ kept[Len(kept)] = <<".", ".">>)
                           THEN new_comps(Tail(comps), Append(kept, comp), initial)
                           ELSE IF kept # <<>>
                                   THEN new_comps(Tail(comps),
                                                  SubSeq(kept, 1, Len(kept) - 1), initial)
                                   ELSE new_comps(Tail(comps), kept, initial)

normpath(path) ==
    LET initial == IF has_prefix(path, <<"/", "/">>) /\ ~has_prefix(path, <<"/", "/", "/">>)
                      THEN 2
                      ELSE IF has_prefix(path, <<"/">>) THEN 1 ELSE 0
        joined == [i \in 1..initial |-> "/"]
                     \o Join(new_comps(Split(path, "/"), <<>>, initial), "/")
    IN  IF path = <<>> \/ joined = <<>> THEN <<".">> ELSE joined

\* _reject_suspicious_token without the two pattern checks
reject_suspicious_token_LengthOnly(tok) ==
    IF Len(tok) > MAX_TOKEN_LEN THEN "token too long" ELSE ""

\* _reject_suspicious_token: the ValidationError the token raises, "" if none
reject_suspicious_token(tok) ==
    IF Len(tok) > MAX_TOKEN_LEN
       THEN "token too long"
       ELSE IF \E i \in DOMAIN tok : tok[i] \in MetaChars
               THEN "shell metacharacter"
               ELSE IF ~RE_SAFE_TOKEN(tok) THEN "unsafe characters" ELSE ""

Raise(error) == [ok |-> FALSE, out |-> <<>>, error |-> error]
\* the vector returned with every token in single quotes
Return_Quoted(out_tokens) ==
    [ok |-> TRUE,
     out |-> [k \in DOMAIN out_tokens |-> <<"'">> \o out_tokens[k] \o <<"'">>],
     error |-> ""]
Return(out_tokens) == [ok |-> TRUE, out |-> out_tokens, error |-> ""]

\* the while loop of _validate_and_normalize_tokens, from index i (1-based)
\* with out_tokens collected so far
RECURSIVE validate_loop(_, _, _)
validate_loop(tokens, i, out_tokens) ==
    IF i > Len(tokens)
       THEN Return(out_tokens)
       ELSE
    LET tok == tokens[i]
    IN  IF reject_suspicious_token(tok) # ""
           THEN Raise(reject_suspicious_token(tok))
        ELSE IF tok \in ALLOWED_FLAGS
           THEN IF tok \notin FLAGS_WITH_ARG
                   THEN validate_loop(tokens, i + 1, Append(out_tokens, tok))
                ELSE IF i + 1 > Len(tokens)
                   THEN Raise("requires an argument")
                ELSE
                LET param == tokens[i + 1]
                    take(value) == validate_loop(tokens, i + 2,
                                                 out_tokens \o <<tok, value>>)
                IN  IF reject_suspicious_token(param) # ""
                       THEN Raise(reject_suspicious_token(param))
                    ELSE IF tok = <<"-", "i">>
                       THEN IF RE_IFACE(param) THEN take(param)
                                               ELSE Raise("invalid interface")
                    ELSE IF tok = <<"-", "Z">>
                       THEN IF RE_USERNAME(param) THEN take(param)
                                                  ELSE Raise("invalid username")
                    ELSE IF tok = <<"-", "w">>
                       THEN IF has_prefix(param, <<"/">>)
                               THEN IF \/ has_prefix(normpath(param),
                                                     ALLOWED_WRITE_DIR \o <<"/">>)
                                       \/ normpath(param) = ALLOWED_WRITE_DIR
                                       THEN take(normpath(param))
                                       ELSE Raise("output path must be under")
                               ELSE IF MatchClass(param, BasenameChars, 1, 200)
                                       THEN take(ALLOWED_WRITE_DIR \o <<"/">> \o param)
                                       ELSE Raise("invalid -w filename")
                    ELSE IF tok \in {<<"-", "c">>, <<"-", "s">>}
                       THEN IF RE_NUMBER(param) THEN take(param)
                                                ELSE Raise("must be numeric")
                    ELSE IF tok = <<"-", "r">>
                       THEN Raise("-r not allowed")
                    ELSE IF has_prefix(param, <<"-">>)
                       THEN Raise("invalid argument")
                       ELSE take(param)
        ELSE IF tok \in ALLOWED_KEYWORDS \/ RE_NUMBER(tok) \/ RE_IPV4(tok)
           THEN validate_loop(tokens, i + 1, Append(out_tokens, tok))
        ELSE IF MatchClass(tok, BareChars, 1, 128)
           THEN validate_loop(tokens, i + 1, Append(out_tokens, tok))
           ELSE Raise("unsupported or unsafe token")

RECURSIVE sum_len(_)
sum_len(tokens) ==
    IF tokens = <<>> THEN 0 ELSE Len(Head(tokens)) + sum_len(Tail(tokens))

\* _validate_and_normalize_tokens(tokens); dir_ok says whether the write
\* directory exists or os.makedirs can create it
validate_and_normalize_tokens(tokens, dir_ok) ==
    IF Len(tokens) = 0
       THEN Raise("no tcpdump arguments provided")
    ELSE IF Len(tokens) > MAX_TOKENS
       THEN Raise("too many arguments")
    ELSE IF sum_len(tokens) + Len(tokens) - 1 > MAX_CMD_CHARS
       THEN Raise("command too long")
    ELSE
    LET looped == validate_loop(tokens, 1, <<>>)
        z_count == Cardinality({k \in DOMAIN looped.out : looped.out[k] = <<"-", "Z">>})
    IN  IF ~looped.ok
           THEN looped
        ELSE IF (\E k \in DOMAIN looped.out : looped.out[k] = <<"-", "w">>) /\ ~dir_ok
           THEN Raise("cannot prepare write directory")
        ELSE IF z_count > 1
           THEN Raise("multiple -Z flags not allowed")
           ELSE looped

\* ---- the validator called on one token list
\* tokens a client can type: flags of the allow-list with and without an
\* argument, -w and -r, a flag outside the list, names, numbers, paths and
\* tokens with shell metacharacters
Vocabulary ==
    {<<"-", "i">>, <<"-", "n">>, <<"-", "c">>, <<"-", "w">>, <<"-", "r">>,
     <<"-", "Z">>, <<"-", "Q">>, <<"-", "x">>, <<"e", "t", "h", "0">>,
     <<"5">>, <<"c", "a", "p", "t", "u", "r", "e">>, <<".", ".">>,
     <<"p", "o", "r", "t">>,
     <<"/", "e", "t", "c", "/", "p", "a", "s", "s", "w", "d">>,
     <<"/", "v", "a", "r", "/", "l", "o", "g", "/", "w", "e", "b", "c", "l", "i", "/", "x">>,
     <<"/", "v", "a", "r", "/", "l", "o", "g", "/", "w", "e", "b", "c", "l", "i", "/", ".", ".", "/", ".", ".", "/", "e", "t", "c", "/", "p", "a", "s", "s", "w", "d">>,
     <<"a", ";", "b">>, <<"$", "(", "i", "d", ")">>,
     <<"a", "b", "c", "\n">>}
TokenLists == UNION {[1..n -> Vocabulary] : n \in 0..MaxArgs}

\* what a call of the validator leaves alone
otherVars == <<loginVars, mainPc, running_task, need_prompt, username, awaited,
               CURRENT_RUNNING_PROCESS, CURRENT_RUNNING_TASK, ipcProc, ipcTask,
               jobs, nextJob, promptTasks, wsOpen, nInputs, cmd, reply, suggested,
               tab_partial, turnEnded, promptsAfter>>

\* handle_tcpdump calls _validate_and_normalize_tokens(in_tokens)
Validate ==
    /\ validated = NotValidated
    /\ \E dir_ok \in BOOLEAN :
          validated' = validate_and_normalize_tokens(in_tokens, dir_ok)
    /\ UNCHANGED <<in_tokens, revalidated, exec_line, exec_args, otherVars, connVars>>

\* the vector returned is validated again; a vector with -w was returned
\* only after the write directory was found or created
Revalidate ==
    /\ validated.ok
    /\ revalidated = NotValidated
    /\ \E dir_ok \in BOOLEAN :
          /\ (\E k \in DOMAIN validated.out : validated.out[k] = <<"-", "w">>) => dir_ok
          /\ revalidated' = validate_and_normalize_tokens(validated.out, dir_ok)
    /\ UNCHANGED <<in_tokens, validated, exec_line, exec_args, otherVars, connVars>>

ValidatorInit ==
    /\ LoginStart
    /\ SessionStart
    /\ ConnStart
    /\ username = "king"
    /\ in_tokens \in TokenLists
    /\ validated = NotValidated
    /\ revalidated = NotValidated
    /\ exec_line = <<>>
    /\ exec_args = NoArgs

ValidatorNext ==
    \/ Validate
    \/ Revalidate

ValidatorSpec == ValidatorInit /\ [][ValidatorNext]_vars

\* ---------------------------- the handlers up to create_subprocess_exec
\* A handler either returns before the subprocess call (spawned is FALSE)
\* or hands args to asyncio.create_subprocess_exec.
NoSpawn == [called |-> TRUE, spawned |-> FALSE, args |-> <<>>]
Spawn(args) == [called |-> TRUE, spawned |-> TRUE, args |-> args]

\* ---- core/iptables_runner.py
VALID_TABLES ==
    {<<"f", "i", "l", "t", "e", "r">>, <<"n", "a", "t">>,
     <<"m", "a", "n", "g", "l", "e">>, <<"r", "a", "w">>,
     <<"s", "e", "c", "u", "r", "i", "t", "y">>}
VALID_CHAINS ==
    {<<"I", "N", "P", "U", "T">>, <<"O", "U", "T", "P", "U", "T">>,
     <<"F", "O", "R", "W", "A", "R", "D">>,
     <<"P", "R", "E", "R", "O", "U", "T", "I", "N", "G">>,
     <<"P", "O", "S", "T", "R", "O", "U", "T", "I", "N", "G">>}

DigitValue == "0" :> 0 @@ "1" :> 1 @@ "2" :> 2 @@ "3" :> 3 @@ "4" :> 4 @@ "5" :> 5 @@ "6" :> 6 @@ "7" :> 7 @@ "8" :> 8 @@ "9" :> 9

\* int(octet) of a string of digits
RECURSIVE to_int(_)
to_int(digits) ==
    IF digits = <<>>
       THEN 0
       ELSE 10 * to_int(SubSeq(digits, 1, Len(digits) - 1)) + DigitValue[digits[Len(digits)]]

\* is_valid_ip: ipaddress.ip_address(ip) does not raise.  The tokens of the
\* run hold no ':', so the IPv4 parse decides: four octets of one to three
\* digits, no leading zero, none above 255.
is_valid_ip(ip) ==
    LET octets == Split(ip, ".")
    IN  /\ Len(octets) = 4
        /\ \A i \in 1..4 :
              /\ Len(octets[i]) \in 1..3
              /\ \A k \in DOMAIN octets[i] : octets[i][k] \in Digit
              /\ Len(octets[i]) > 1 => octets[i][1] # "0"
              /\ to_int(octets[i]) <= 255

\* handle_iptables(websocket, cmd) with tokens = cmd.strip().split()
iptables_args(tokens) ==
    IF Len(tokens) < 2
       THEN NoSpawn
       ELSE
    LET action == tokens[2]
        table == IF Len(tokens) >= 3 THEN tokens[3] ELSE <<"f", "i", "l", "t", "e", "r">>
        chain == IF Len(tokens) >= 4 THEN <<tokens[4]>> ELSE <<>>
    IN  IF action = <<"l", "i", "s", "t">>
           THEN IF table \notin VALID_TABLES
                   THEN NoSpawn
                   ELSE Spawn(<<<<"s", "u", "d", "o">>, <<"i", "p", "t", "a", "b", "l", "e", "s">>, <<"-", "t">>, table,
                                <<"-", "L">>, <<"-", "n">>, <<"-", "v">>>> \o chain)
        ELSE IF action = <<"f", "l", "u", "s", "h">>
           THEN IF table \notin VALID_TABLES
                   THEN NoSpawn
                   ELSE Spawn(<<<<"s", "u", "d", "o">>, <<"i", "p", "t", "a", "b", "l", "e", "s">>, <<"-", "t">>, table,
                                <<"-", "F">>>> \o chain)
        ELSE IF action \in {<<"b", "l", "o", "c", "k">>, <<"u", "n", "b", "l", "o", "c", "k">>}
           THEN IF Len(tokens) # 5
                   THEN NoSpawn
                   ELSE IF \/ tokens[3] \notin VALID_TABLES
                           \/ tokens[4] \notin VALID_CHAINS
                           \/ ~is_valid_ip(tokens[5])
                           THEN NoSpawn
                           ELSE Spawn(<<<<"s", "u", "d", "o">>, <<"i", "p", "t", "a", "b", "l", "e", "s">>, <<"-", "t">>, tokens[3],
                                        IF action = <<"b", "l", "o", "c", "k">> THEN <<"-", "A">> ELSE <<"-", "D">>,
                                        tokens[4], <<"-", "s">>, tokens[5], <<"-", "j">>,
                                        <<"D", "R", "O", "P">>>>)
           ELSE NoSpawn

\* ---- core/systemctl_runner.py
ALLOWED_SUBCOMMANDS ==
    {<<"s", "t", "a", "t", "u", "s">>, <<"r", "e", "s", "t", "a", "r", "t">>,
     <<"s", "t", "a", "r", "t">>, <<"s", "t", "o", "p">>,
     <<"r", "e", "l", "o", "a", "d">>, <<"e", "n", "a", "b", "l", "e">>,
     <<"d", "i", "s", "a", "b", "l", "e">>}
ALLOWED_SERVICES ==
    {<<"n", "g", "i", "n", "x">>, <<"s", "s", "h">>, <<"s", "s", "h", "d">>,
     <<"c", "r", "o", "n">>, <<"w", "e", "b", "c", "l", "i">>}

\* str.lower()
LowerOf ==
    "A" :> "a" @@ "B" :> "b" @@ "C" :> "c" @@ "D" :> "d" @@ "E" :> "e" @@ "F" :> "f" @@
    "G" :> "g" @@ "H" :> "h" @@ "I" :> "i" @@ "J" :> "j" @@ "K" :> "k" @@ "L" :> "l" @@
    "M" :> "m" @@ "N" :> "n" @@ "O" :> "o" @@ "P" :> "p" @@ "Q" :> "q" @@ "R" :> "r" @@
    "S" :> "s" @@ "T" :> "t" @@ "U" :> "u" @@ "V" :> "v" @@ "W" :> "w" @@ "X" :> "x" @@
    "Y" :> "y" @@ "Z" :> "z"
lower(tok) == [i \in DOMAIN tok |-> IF tok[i] \in Upper THEN LowerOf[tok[i]] ELSE tok[i]]

\* _strip_suffix on the characters of the service name
strip_unit_suffix(service) ==
    LET k == Len(service) - Len(Suffix)
    IN  IF k >= 0 /\ SubSeq(service, k + 1, Len(service)) = Suffix
           THEN SubSeq(service, 1, k)
           ELSE service

is_allowed_service(service) == strip_unit_suffix(service) \in ALLOWED_SERVICES

build_cmd(subcommand, service) ==
    <<<<"s", "u", "d", "o">>, <<"s", "y", "s", "t", "e", "m", "c", "t", "l">>, subcommand, strip_unit_suffix(service) \o Suffix>>

\* handle_systemctl(websocket, full_command) with tokens = full_command.strip().split()
systemctl_args(tokens) ==
    IF Len(tokens) < 3
       THEN NoSpawn
       ELSE LET subcommand == lower(tokens[2])
                service_arg == tokens[3]
            IN  IF subcommand \notin ALLOWED_SUBCOMMANDS
                   THEN NoSpawn
                   ELSE IF ~is_allowed_service(service_arg)
                           THEN NoSpawn
                           ELSE Spawn(build_cmd(subcommand, service_arg))

\* ---- core/tcpdump_runner.py
SUDO == <<"s", "u", "d", "o">>
WRAPPER_PATH == <<"/", "u", "s", "r", "/", "l", "o", "c", "a", "l", "/", "s", "b", "i", "n", "/", "w", "e", "b", "c", "l", "i", "-", "t", "c", "p", "d", "u", "m", "p", ".", "s", "h">>

\* handle_tcpdump(websocket, cmd) with parts = shlex.split(cmd.strip());
\* wrapper_ok is os.path.isfile(WRAPPER_PATH)
tcpdump_args(parts, wrapper_ok, dir_ok) ==
    IF ~wrapper_ok
       THEN NoSpawn
       ELSE IF Len(parts) = 0 \/ parts[1] # <<"t", "c", "p", "d", "u", "m", "p">>
               THEN NoSpawn
               ELSE LET checked == validate_and_normalize_tokens(Tail(parts), dir_ok)
                    IN  IF ~checked.ok
                           THEN NoSpawn
                           ELSE Spawn(<<SUDO, WRAPPER_PATH>> \o checked.out)

\* ---- a handler called on one command line
IptablesWords ==
    {<<"l", "i", "s", "t">>, <<"f", "l", "u", "s", "h">>,
     <<"b", "l", "o", "c", "k">>, <<"u", "n", "b", "l", "o", "c", "k">>,
     <<"f", "i", "l", "t", "e", "r">>, <<"b", "o", "g", "u", "s">>,
     <<"I", "N", "P", "U", "T">>,
     <<"-", "-", "m", "o", "d", "p", "r", "o", "b", "e", "=", "/", "t", "m", "p", "/", "x">>,
     <<"1", "0", ".", "0", ".", "0", ".", "1">>,
     <<"1", "0", ".", "0", ".", "0", ".", "2", "5", "6">>}
SystemctlWords ==
    {<<"s", "t", "a", "t", "u", "s">>, <<"S", "T", "A", "T", "U", "S">>,
     <<"k", "i", "l", "l">>, <<"n", "g", "i", "n", "x">>,
     <<"n", "g", "i", "n", "x", ".", "s", "e", "r", "v", "i", "c", "e">>,
     <<"e", "v", "i", "l">>}
WordLists(words, n) == UNION {[1..k -> words] : k \in 0..n}
CommandLines ==
    {<<<<"i", "p", "t", "a", "b", "l", "e", "s">>>> \o l : l \in WordLists(IptablesWords, MaxArgs + 1)}
       \cup {<<<<"s", "y", "s", "t", "e", "m", "c", "t", "l">>>> \o l : l \in WordLists(SystemctlWords, MaxArgs)}
       \cup {<<<<"t", "c", "p", "d", "u", "m", "p">>>> \o l : l \in WordLists(Vocabulary, MaxArgs - 1)}

RunIptables ==
    /\ ~exec_args.called
    /\ exec_line[1] = <<"i", "p", "t", "a", "b", "l", "e", "s">>
    /\ exec_args' = iptables_args(exec_line)
    /\ UNCHANGED <<in_tokens, validated, revalidated, exec_line, otherVars, connVars>>

RunSystemctl ==
    /\ ~exec_args.called
    /\ exec_line[1] = <<"s", "y", "s", "t", "e", "m", "c", "t", "l">>
    /\ exec_args' = systemctl_args(exec_line)
    /\ UNCHANGED <<in_tokens, validated, revalidated, exec_line, otherVars, connVars>>

RunTcpdump ==
    /\ ~exec_args.called
    /\ exec_line[1] = <<"t", "c", "p", "d", "u", "m", "p">>
    /\ \E wrapper_ok \in BOOLEAN, dir_ok \in BOOLEAN :
          exec_args' = tcpdump_args(exec_line, wrapper_ok, dir_ok)
    /\ UNCHANGED <<in_tokens, validated, revalidated, exec_line, otherVars, connVars>>

ArgvInit ==
    /\ LoginStart
    /\ SessionStart
    /\ ConnStart
    /\ username = "king"
    /\ in_tokens = <<>>
    /\ validated = NotValidated
    /\ revalidated = NotValidated
    /\ exec_line \in CommandLines
    /\ exec_args = NoArgs

ArgvNext ==
    \/ RunIptables
    \/ RunSystemctl
    \/ RunTcpdump

ArgvSpec == ArgvInit /\ [][ArgvNext]_vars

\* ------------------------ two sessions, one process table, idle watchers
\* The job of a session is followed from its dispatch to its end; the races
\* between the session loop and the done-callback are the matter of
\* SessionSpec and are left out here: the callback runs with the step that
\* ends the task.  Clock units are idle-timeout units.
IDLE_TIMEOUT_SECONDS == 2
IDLE_WARN_SECONDS == 1
IDLE_POLL_INTERVAL == 1

\* process_manager.set_current_process keeping one entry for all websockets
SetCurrent_Shared(ws, process, task) ==
    /\ RUNNING_PROCESS_OF' = [w \in Websockets |-> process]
    /\ RUNNING_TASK_OF' = IF task # "none"
                             THEN [w \in Websockets |-> task]
                             ELSE RUNNING_TASK_OF

\* process_manager.set_current_process(websocket, process, task)
SetCurrent(ws, process, task) ==
    /\ RUNNING_PROCESS_OF' = [RUNNING_PROCESS_OF EXCEPT ![ws] = process]
    /\ RUNNING_TASK_OF' = IF task # "none"
                             THEN [RUNNING_TASK_OF EXCEPT ![ws] = task]
                             ELSE RUNNING_TASK_OF

\* process_manager.clear_current_process(websocket)
ClearCurrent(ws) ==
    /\ RUNNING_PROCESS_OF' = [RUNNING_PROCESS_OF EXCEPT ![ws] = "none"]
    /\ RUNNING_TASK_OF' = [RUNNING_TASK_OF EXCEPT ![ws] = "none"]

\* the handlers that register their subprocess: handle_tcpdump (line 229,
\* with its task) and handle_systemctl (line 96, without); run_command of
\* core/iptables_runner.py registers nothing
Registers(kind) == kind \in {"tcpdump", "systemctl"}

\* ActivityWebSocket.receive_text: the line is handed on and the idle clock
\* restarts
Touched(c) == [c EXCEPT !.last_client_activity = now]

connRest == <<otherVars, validatorVars>>

\* a line answered inline, or any line but `__INTERRUPT__` while a job is live
ConnInput(ws) ==
    /\ conns[ws].open
    /\ conns' = [conns EXCEPT ![ws] = Touched(@)]
    /\ UNCHANGED <<RUNNING_PROCESS_OF, RUNNING_TASK_OF, connRest>>

\* admin_handler lines 104-141: a job line with no job live; the task is
\* created (a subprocess left behind by an interrupted iptables job is lost
\* sight of)
ConnDispatch(ws) ==
    /\ conns[ws].open
    /\ conns[ws].st = "none"
    /\ \E kind \in JobKinds :
          conns' = [conns EXCEPT ![ws] = [Touched(@) EXCEPT !.kind = kind,
                                                            !.st = "start",
                                                            !.proc = "none"]]
    /\ UNCHANGED <<RUNNING_PROCESS_OF, RUNNING_TASK_OF, connRest>>

\* the first step of the job task: the handler rejects the line and returns
\* (the done-callback sets running_task = None), or spawns the subprocess
\* and, but for iptables, registers it
ConnSpawn(ws) ==
    /\ conns[ws].st = "start"
    /\ \E accepted \in BOOLEAN :
          IF ~accepted
             THEN /\ conns' = [conns EXCEPT ![ws].kind = "none", ![ws].st = "none"]
                  /\ UNCHANGED <<RUNNING_PROCESS_OF, RUNNING_TASK_OF>>
             ELSE /\ conns' = [conns EXCEPT ![ws].st = "run", ![ws].proc = "run"]
                  /\ IF Registers(conns[ws].kind)
                        THEN SetCurrent(ws, ws, IF conns[ws].kind = "tcpdump"
                                                   THEN ws ELSE "none")
                        ELSE UNCHANGED <<RUNNING_PROCESS_OF, RUNNING_TASK_OF>>
    /\ UNCHANGED connRest

\* the subprocess of the session exits
ConnProcExit(ws) ==
    /\ conns[ws].proc = "run"
    /\ conns' = [conns EXCEPT ![ws].proc = "exit"]
    /\ UNCHANGED <<RUNNING_PROCESS_OF, RUNNING_TASK_OF, connRest>>

\* process.wait() returns: the handler ends, through clear_current_process
\* in its finally block where it has one, and the done-callback sets
\* running_task = None
ConnFinish(ws) ==
    /\ conns[ws].st = "run"
    /\ conns[ws].proc = "exit"
    /\ conns' = [conns EXCEPT ![ws].kind = "none", ![ws].st = "none", ![ws].proc = "none"]
    /\ IF Registers(conns[ws].kind)
          THEN ClearCurrent(ws)
          ELSE UNCHANGED <<RUNNING_PROCESS_OF, RUNNING_TASK_OF>>
    /\ UNCHANGED connRest

\* `__INTERRUPT__` with a job live: interrupt_current_process(websocket)
\* terminates the process and cancels the task it finds under the websocket
\* and clears the entry; admin_handler then cancels and awaits running_task.
\* A cancelled job ends; its subprocess ends only if it was the one found
ConnInterrupt(ws) ==
    /\ conns[ws].open
    /\ conns[ws].st # "none"
    /\ LET proc == RUNNING_PROCESS_OF[ws]
           task == RUNNING_TASK_OF[ws]
       IN  conns' = [w \in Websockets |->
                       LET c == IF w = ws THEN Touched(conns[w]) ELSE conns[w]
                           stopped == IF w = proc /\ c.proc = "run"
                                         THEN [c EXCEPT !.proc = "exit"]
                                         ELSE c
                       IN  IF w = ws \/ w = task
                              THEN [stopped EXCEPT !.kind = "none", !.st = "none"]
                              ELSE stopped]
    /\ ClearCurrent(ws)
    /\ UNCHANGED connRest

\* _idle_watcher, one poll (lines 334-367): asyncio.sleep(IDLE_POLL_INTERVAL)
\* has returned; a registered process that runs restarts the idle clock;
\* otherwise the warning is sent once and the connection is closed when the
\* timeout has passed
IdlePoll(ws) ==
    /\ conns[ws].open
    /\ now >= conns[ws].polled_at + IDLE_POLL_INTERVAL
    /\ LET c == [conns[ws] EXCEPT !.polled_at = now]
           proc == RUNNING_PROCESS_OF[ws]
           elapsed == now - c.last_client_activity
           remaining == IDLE_TIMEOUT_SECONDS - elapsed
       IN  IF proc # "none" /\ conns[proc].proc = "run"
              THEN conns' = [conns EXCEPT ![ws] = [Touched(c) EXCEPT !.warned = FALSE]]
              ELSE conns' = [conns EXCEPT
                               ![ws].polled_at = now,
                               ![ws].warned = \/ c.warned
                                              \/ /\ IDLE_WARN_SECONDS > 0
                                                 /\ remaining <= IDLE_WARN_SECONDS
                                                 /\ remaining > 0,
                               ![ws].open = elapsed < IDLE_TIMEOUT_SECONDS]
    /\ UNCHANGED <<RUNNING_PROCESS_OF, RUNNING_TASK_OF, connRest>>

\* the clock advances.  The event loop runs what is ready at once: no time
\* passes between create_task and create_subprocess_exec, nor between the
\* exit of a subprocess and the end of the handler that waits for it, and a
\* watcher whose sleep is over has polled
ConnTick ==
    /\ \A w \in Websockets :
          /\ conns[w].st # "start"
          /\ conns[w].st = "run" => conns[w].proc = "run"
          /\ conns[w].open => now < conns[w].polled_at + IDLE_POLL_INTERVAL
    /\ Tick

ConnInit ==
    /\ LoginStart
    /\ SessionStart
    /\ ConnStart
    /\ ValidatorStart
    /\ username = "king"

ConnNext ==
    \/ \E ws \in Websockets :
          \/ ConnInput(ws)
          \/ ConnDispatch(ws)
          \/ ConnSpawn(ws)
          \/ ConnProcExit(ws)
          \/ ConnFinish(ws)
          \/ ConnInterrupt(ws)
          \/ IdlePoll(ws)
    \/ ConnTick

ConnSpec == ConnInit /\ [][ConnNext]_vars

\* ------------------------------------------------------- throttle properties
\* C7: a client reaches the authenticated state only while neither its
\* username key nor its IP key is locked out
C7_NoLoginWhileLocked ==
    [][\A c \in Clients :
          (loginPc[c] = "password" /\ loginPc'[c] = "authed")
             => /\ check_blocked(user_states, login_username[c], now) = 0
                /\ check_blocked(ip_states, client_ip[c], now) = 0]_vars

\* the key of the last call as the call found it (a fresh _KeyState when the
\* key was absent), and as it is now
PriorState == IF ret.prior.present THEN ret.prior ELSE KeyState
KeyNow == states_of(ret.limiter)[ret.key]
\* the failures of the key within the window at the time of the call, the
\* failure being registered included
FailuresInWindow ==
    Cardinality({i \in DOMAIN PriorState.fail_times :
                    PriorState.fail_times[i] >= ret.at - AUTH_WINDOW}) + 1
\* min(lock_base * 2^lockouts, lock_max) for the key of the last call
EscalatedLock == Min(AUTH_LOCKOUT_BASE * (2 ^ PriorState.lockouts), AUTH_LOCKOUT_MAX)

\* C8: after register_failure on a key that was not locked: if the failures in
\* the window reached max_fails, the lock duration returned is
\* min(lock_base * 2^lockouts, lock_max) (at least lock_base), lock_until is
\* the time of the call plus that duration, the lockout counter is one more
\* and the failure queue is empty; below the threshold the lock returned is 0
\* and neither lock_until nor the lockout counter changed
C8_LockoutOnThreshold ==
    (ret.op = "register_failure" /\ PriorState.lock_until <= ret.at)
       => IF FailuresInWindow >= max_fails_of(ret.limiter)
             THEN /\ ret.value = EscalatedLock
                  /\ ret.value >= AUTH_LOCKOUT_BASE
                  /\ KeyNow.lock_until = ret.at + EscalatedLock
                  /\ KeyNow.lockouts = PriorState.lockouts + 1
                  /\ KeyNow.fail_times = <<>>
             ELSE /\ ret.value = 0
                  /\ KeyNow.lock_until = PriorState.lock_until
                  /\ KeyNow.lockouts = PriorState.lockouts

\* a second lockout of a key was triggered, its duration capped by lock_max
C8_Witness ==
    /\ ret.op = "register_failure"
    /\ PriorState.lock_until <= ret.at
    /\ PriorState.lockouts = 1
    /\ ret.value = AUTH_LOCKOUT_MAX
    /\ AUTH_LOCKOUT_BASE * (2 ^ PriorState.lockouts) > AUTH_LOCKOUT_MAX

\* C9: after register_failure on a key whose lockout was active, the key's
\* lock_until, lockout counter and failure queue are what they were, and the
\* lock time returned is lock_until minus the time of the call
C9_LockedKeyUnchanged ==
    (ret.op = "register_failure" /\ PriorState.lock_until > ret.at)
       => /\ KeyNow = ret.prior
          /\ ret.value = ret.prior.lock_until - ret.at

\* a failure was registered one time unit before the expiry of a lockout
\* that had run for some time
C9_Witness ==
    /\ ret.op = "register_failure"
    /\ PriorState.lock_until > ret.at
    /\ ret.value = 1
    /\ now = ret.at

\* C10: after register_success the key has no state: check_blocked returns 0
\* and a failure registered next is the first of its window (one entry in the
\* queue, no lockout, lockout counter 0)
C10_SuccessClearsKey ==
    ret.op = "register_success"
       => /\ ~KeyNow.present
          /\ check_blocked(states_of(ret.limiter), ret.key, now) = 0
          /\ LET f == register_failure(states_of(ret.limiter), ret.key, now,
                                       max_fails_of(ret.limiter), 0)
             IN  /\ f.states[ret.key].fail_times = <<now>>
                 /\ f.states[ret.key].lockouts = 0
                 /\ f.lock = 0

\* register_success was called on a key in its second lockout
C10_Witness ==
    /\ ret.op = "register_success"
    /\ ret.prior.lock_until > ret.at
    /\ ret.prior.lockouts = 2
    /\ now = ret.at

\* C11: the per-username limiter holds state only for usernames of the
\* credential store: an attempt with an unknown username is charged to the IP
\* key alone
C11_UnknownChargedToIpOnly ==
    \A name \in LoginNames : user_states[name].present => name \in USERS

\* attempts with an unknown username alone reached the threshold of the IP
\* key: the lockout of the IP is reported and no username has any state
C11_Witness ==
    /\ sent = "too_many_attempts_ip"
    /\ \E ip \in IPs : ip_states[ip].lockouts = 1
    /\ \A name \in LoginNames : ~user_states[name].present

\* the messages a client at ip gets for one login attempt with a wrong
\* password made now under the username `name`: the blocked message alone, or
\* the password prompt followed by the failure message
AttemptReplies(ip, name, r_ip, r_user) ==
    LET ip_block == check_blocked(ip_states, ip, now)
        user_block == check_blocked(user_states, name, now)
        msg == blocked_reply(ip_block, user_block)
        f_ip == register_failure(ip_states, ip, now, AUTH_MAX_FAILS_PER_IP, r_ip)
        f_user == register_failure(user_states, name, now, AUTH_MAX_FAILS_PER_USER, r_user)
    IN  IF msg # ""
           THEN <<msg>>
           ELSE IF name \in USERS
                   THEN <<"password_prompt", failure_reply(TRUE, Max(f_ip.lock, f_user.lock))>>
                   ELSE <<"password_prompt", failure_reply(FALSE, f_ip.lock)>>

\* C12: in every reachable throttle state, a failed attempt under a username
\* of the store and one under an unknown username, made from the same IP, get
\* the same messages
C12_RepliesHideUsername ==
    \A ip \in IPs, known \in LoginNames \cap USERS, unknown \in LoginNames \ USERS,
       r_ip \in Jitter, r_user \in Jitter :
          AttemptReplies(ip, known, r_ip, r_user) = AttemptReplies(ip, unknown, r_ip, r_user)

\* client c, waiting for the password of a username of the store, gets a
\* wrong one in this step
WrongPasswordStep(c) ==
    /\ loginPc[c] = "password"
    /\ login_username[c] \in USERS
    /\ loginPc'[c] \in {"sleep", "username"}

\* C13: a wrong password for a known username registers one failure with the
\* IP key and one with the username key; the delay slept is the larger of the
\* two backoffs and nothing is sent before the sleep; the reply, sent at once
\* when there is no delay and after the sleep otherwise, reports the larger of
\* the two lock durations and is the 'too many attempts' message exactly when
\* that is nonzero, which it is whenever this failure triggered a lockout
C13_WrongPasswordChargesBoth ==
    [][\A c \in Clients :
          /\ WrongPasswordStep(c)
                => \E r_ip \in Jitter, r_user \in Jitter :
                      LET ip == client_ip[c]
                          name == login_username[c]
                          f_ip == register_failure(ip_states, ip, now,
                                                   AUTH_MAX_FAILS_PER_IP, r_ip)
                          f_user == register_failure(user_states, name, now,
                                                     AUTH_MAX_FAILS_PER_USER, r_user)
                          d == Max(f_ip.backoff, f_user.backoff)
                          l == Max(f_ip.lock, f_user.lock)
                      IN  /\ ip_states' = f_ip.states
                          /\ user_states' = f_user.states
                          /\ (ip_states'[ip].lockouts
                                 # (IF ip_states[ip].present THEN ip_states[ip].lockouts ELSE 0))
                                => l > 0
                          /\ (user_states'[name].lockouts
                                 # (IF user_states[name].present THEN user_states[name].lockouts ELSE 0))
                                => l > 0
                          /\ IF d > 0
                                THEN /\ loginPc'[c] = "sleep"
                                     /\ delay'[c] = d
                                     /\ sent' = ""
                                     /\ Max(lock_ip'[c], lock_user'[c]) = l
                                ELSE /\ loginPc'[c] = "username"
                                     /\ sent_to' = c
                                     /\ sent_wait' = l
                                     /\ sent' = failure_reply(TRUE, l)
          /\ (loginPc[c] = "sleep" /\ login_username[c] \in USERS /\ loginPc'[c] # "sleep")
                => /\ sent_to' = c
                   /\ sent_wait' = Max(lock_ip[c], lock_user[c])
                   /\ (sent' = "too_many_attempts") = (sent_wait' > 0)
                   /\ sent' \in {"too_many_attempts", "authentication_failed"}]_vars

\* the failure that reached the threshold of the username key, the IP key
\* being below its own, was answered after the sleep with the lock duration
C13_Witness ==
    /\ sent = "too_many_attempts"
    /\ sent_wait = AUTH_LOCKOUT_BASE
    /\ \E name \in LoginNames :
          /\ user_states[name].lockouts = 1
          /\ user_states[name].lock_until = now + AUTH_LOCKOUT_BASE
    /\ \A ip \in IPs : ip_states[ip].lockouts = 0

\* C14: the password prompt is sent to a client only in the step in which
\* check_blocked returned 0 for its IP key and for the username it gave; when
\* either key is blocked the client gets the blocked message with the
\* remaining wait of that key, stays at the username prompt (no password is
\* read) and no limiter state changes
C14_BlockedBeforePassword ==
    [][\A c \in Clients :
          /\ (sent' = "password_prompt" /\ sent_to' = c)
                => /\ loginPc[c] = "username"
                   /\ loginPc'[c] = "password"
                   /\ check_blocked(ip_states, client_ip[c], now) = 0
                   /\ check_blocked(user_states, login_username'[c], now) = 0
          /\ (loginPc[c] = "username" /\ loginPc'[c] = "password")
                => sent' = "password_prompt" /\ sent_to' = c
          /\ (loginPc[c] = "username" /\ sent_to' = c
                 /\ check_blocked(ip_states, client_ip[c], now) > 0)
                => /\ sent' = "blocked_ip"
                   /\ sent_wait' = check_blocked(ip_states, client_ip[c], now)
          /\ (sent' = "blocked_user" /\ sent_to' = c)
                => \E name \in LoginNames :
                      /\ check_blocked(user_states, name, now) > 0
                      /\ sent_wait' = check_blocked(user_states, name, now)
          /\ (sent' \in {"blocked_ip", "blocked_user"} /\ sent_to' = c)
                => /\ loginPc[c] = "username"
                   /\ sent_wait' > 0
                   /\ UNCHANGED <<loginPc, login_username, ip_states, user_states>>]_vars

\* a client gave a username whose lockout had one time unit left, the IP key
\* not being blocked, and was told to wait
C14_Witness ==
    /\ sent = "blocked_user"
    /\ sent_wait = 1
    /\ loginPc[sent_to] = "username"
    /\ \A ip \in IPs : check_blocked(ip_states, ip, now) = 0

\* ----------------------------------------------------- dispatch properties
\* the step runs the line it accepts: a job task is created for it, or one of
\* the inline handlers (help, config, userctl, signout) answers it
Executes ==
    \/ nextJob' # nextJob
    \/ reply' \in {"help", "config_returned", "userctl_done", "signing_out"}

\* C15: a line accepted by the admin session is run only if its first token
\* is in the allowed set of the session's role and username; a line that is
\* not a control line and whose first token is outside that set is answered
\* with a rejection and runs nothing
C15_OnlyAllowedCommandsRun ==
    [][AcceptStep
          => /\ Executes => cmd' \in Range(allowed_for("admin", username))
             /\ (cmd' \notin Range(allowed_for("admin", username))
                    /\ cmd' \notin {"__INTERRUPT__", "__TAB__"}
                    /\ ~job_live)
                   => /\ reply' \in {"unknown_command", "permission_denied"}
                      /\ ~Executes]_vars

\* C16: in an admin session userctl is run only for the username 'king'; for
\* any other username a userctl line is answered with the permission-denied
\* message and runs nothing, and no suggestion of an autocomplete reply holds
\* the word userctl
C16_UserctlOnlyForKing ==
    [][AcceptStep
          => /\ reply' = "userctl_done" => username = "king"
             /\ (cmd' = "userctl" /\ ~job_live /\ username # "king")
                   => /\ reply' = "permission_denied"
                      /\ ~Executes
                      /\ UNCHANGED <<jobs, running_task, tableVars>>
             /\ username # "king"
                   => \A i \in DOMAIN suggested' : "userctl" \notin Range(suggested'[i])]_vars

\* a userctl line of the admin 'bob' was refused
C16_Witness ==
    /\ username = "bob"
    /\ cmd = "userctl"
    /\ reply = "permission_denied"

\* the line accepted in this step is rejected
Rejects == reply' \in {"unknown_command", "permission_denied"}

\* C17: a rejected line creates no job and leaves running_task, the process
\* table, the jobs, the pending prompt tasks, the connection and the
\* username as they were; the loop goes on (to `need_prompt = True` and the
\* next receive) with no job live, and a `help` accepted with no job live is
\* answered with the help text
C17_RejectionChangesNothing ==
    [][/\ (AcceptStep /\ Rejects)
             => /\ ~job_live
                /\ mainPc' = "set_need"
                /\ UNCHANGED <<running_task, need_prompt, username, awaited, tableVars,
                               ipcProc, ipcTask, jobs, nextJob, promptTasks, wsOpen>>
       /\ (mainPc = "set_need" /\ mainPc' # "set_need")
             => /\ wsOpen => mainPc' = "recv"
                /\ UNCHANGED <<running_task, tableVars, jobs, nextJob, username>>
       /\ (AcceptStep /\ cmd' = "help" /\ ~job_live)
             => reply' = "help" /\ mainPc' = "set_need"]_vars

\* an unknown command was rejected while running_task still held a finished
\* task whose done-callback had not run
C17_Witness ==
    /\ cmd = "unknown"
    /\ reply = "unknown_command"
    /\ mainPc = "set_need"
    /\ running_task # 0

\* ---------------------------------------------------- validator properties
ValidatorCalled == validated # NotValidated
HasMeta(tok) == \E i \in DOMAIN tok : tok[i] \in MetaChars
FlagW == <<"-", "w">>

\* C18: a token list with a shell metacharacter in any token, whatever its
\* position, is rejected, and no accepted vector holds such a character.
C18_MetacharacterRejected ==
    ValidatorCalled =>
       /\ (\E k \in DOMAIN in_tokens : HasMeta(in_tokens[k])) => ~validated.ok
       /\ validated.ok => \A k \in DOMAIN validated.out : ~HasMeta(validated.out[k])

\* a metacharacter in the argument of a flag that takes any value, after a
\* flag that was accepted
C18_Witness ==
    /\ ValidatorCalled
    /\ Len(in_tokens) = 3
    /\ in_tokens[1] = <<"-", "n">>
    /\ in_tokens[2] = <<"-", "Q">>
    /\ HasMeta(in_tokens[3])
    /\ validated.error = "shell metacharacter"

\* C19: `-w name` with a bare file name is accepted (when the write
\* directory can be prepared) as `-w /var/log/webcli/name`.
C19_BareNameMapped ==
    ( /\ ValidatorCalled
      /\ Len(in_tokens) = 2
      /\ in_tokens[1] = FlagW
      /\ MatchClass(in_tokens[2], BasenameChars, 1, 200)
      /\ validated.error # "cannot prepare write directory" )
    => /\ validated.ok
       /\ validated.out = <<FlagW, ALLOWED_WRITE_DIR \o <<"/">> \o in_tokens[2]>>

\* path is absolute, free of "." and ".." segments, and is the write
\* directory or lies under it
UnderWriteDir(path) ==
    /\ has_prefix(path, <<"/">>)
    /\ normpath(path) = path
    /\ path = ALLOWED_WRITE_DIR \/ has_prefix(path, ALLOWED_WRITE_DIR \o <<"/">>)

\* C20: in an accepted vector every -w is followed by a normalized absolute
\* path that is the write directory or under it, and -w with an absolute
\* path that normalizes to a place outside it is rejected.
C20_WriteTargetUnderDir ==
    ValidatorCalled =>
       /\ validated.ok =>
             \A k \in DOMAIN validated.out :
                validated.out[k] = FlagW =>
                   /\ k < Len(validated.out)
                   /\ UnderWriteDir(validated.out[k + 1])
       /\ (\E k \in 1..(Len(in_tokens) - 1) :
              /\ in_tokens[k] = FlagW
              /\ has_prefix(in_tokens[k + 1], <<"/">>)
              /\ ~UnderWriteDir(normpath(in_tokens[k + 1])))
          => ~validated.ok

FlagR == <<"-", "r">>

\* C21: a token list that holds -r at any position is rejected, and no
\* accepted vector holds -r.
C21_ReadFlagRejected ==
    ValidatorCalled =>
       /\ (\E k \in DOMAIN in_tokens : in_tokens[k] = FlagR) => ~validated.ok
       /\ validated.ok => \A k \in DOMAIN validated.out : validated.out[k] # FlagR

\* C22: a first token (the first flag position) that begins with '-' and
\* is not in ALLOWED_FLAGS makes the command rejected, with no vector.
C22_UnknownFlagRejected ==
    ( /\ ValidatorCalled
      /\ in_tokens # <<>>
      /\ has_prefix(in_tokens[1], <<"-">>)
      /\ in_tokens[1] \notin ALLOWED_FLAGS )
    => /\ ~validated.ok
       /\ validated.out = <<>>

\* C23: the vector returned for an accepted token list is accepted again
\* and returned unchanged.
C23_ValidationIdempotent ==
    revalidated # NotValidated =>
       /\ revalidated.ok
       /\ revalidated.out = validated.out

\* a flag with its argument, a keyword and a number validated twice
C23_Witness ==
    /\ revalidated # NotValidated
    /\ in_tokens = <<<<"-", "i">>, <<"e", "t", "h", "0">>, <<"5">>>>
    /\ revalidated.ok

\* ------------------------------------------------ argument vector properties
\* the tokens the handlers write themselves
FixedTokens ==
    {WRAPPER_PATH,
     <<"s", "u", "d", "o">>, <<"i", "p", "t", "a", "b", "l", "e", "s">>,
     <<"s", "y", "s", "t", "e", "m", "c", "t", "l">>, <<"-", "t">>,
     <<"-", "L">>, <<"-", "n">>, <<"-", "v">>, <<"-", "F">>, <<"-", "A">>,
     <<"-", "D">>, <<"-", "s">>, <<"-", "j">>, <<"D", "R", "O", "P">>}

\* tok is a member of a whitelist of its handler or a valid address
Whitelisted(tok) ==
    \/ tok \in VALID_TABLES \cup VALID_CHAINS \cup ALLOWED_SUBCOMMANDS
    \/ tok \in {svc \o Suffix : svc \in ALLOWED_SERVICES}
    \/ is_valid_ip(tok)

\* C24: every token of a vector handed to create_subprocess_exec is a fixed
\* token, a member of a whitelist or, for tcpdump, part of a vector that
\* the validator accepts.
C24_ArgsAreValidated ==
    exec_args.spawned =>
       IF exec_line[1] = <<"t", "c", "p", "d", "u", "m", "p">>
          THEN /\ SubSeq(exec_args.args, 1, 2) = <<SUDO, WRAPPER_PATH>>
               /\ validate_and_normalize_tokens(
                      SubSeq(exec_args.args, 3, Len(exec_args.args)), TRUE).ok
          ELSE \A k \in DOMAIN exec_args.args :
                  exec_args.args[k] \in FixedTokens \/ Whitelisted(exec_args.args[k])

\* --------------------------------------------------- handler error properties
\* C25: while the connection is open, an exception raised in a command
\* handler (a job task or an inline handler) does not take the session out
\* of its loop.
C25_HandlerErrorKeepsLoop ==
    [][(mainPc' = "raised" /\ mainPc # "raised") => ~wsOpen]_vars

\* ----------------------------------------------------------- signout properties
\* C26: signout is accepted only when no job of the session is unfinished;
\* it ends the loop and leaves the connection open, and once the loop has
\* ended with signout the session dispatches nothing more.
C26_SignoutEndsIdleSession ==
    [][/\ (AcceptStep /\ reply' = "signing_out")
             => /\ cmd' = "signout"
                /\ \A j \in JobIds : ~unfinished(j)
                /\ mainPc' = "signedout"
                /\ wsOpen' = wsOpen
       /\ mainPc = "signedout"
             => /\ mainPc' = "signedout"
                /\ nextJob' = nextJob]_vars

\* ------------------------------------------------------ autocomplete properties
AutocompleteReplies == {"autocomplete_nomatches", "autocomplete_replace", "autocomplete_matches"}

\* C27: for a request whose partial text is an allowed command with its own
\* completions, followed by a space, the suggestions are those the resolver
\* gives for the text with its trailing space: completions of the command's
\* arguments, none of them the command name alone.
C27_TrailingSpaceCompletesArguments ==
    ( /\ reply \in AutocompleteReplies
      /\ tab_partial.space
      /\ Len(tab_partial.words) = 1
      /\ tab_partial.words[1] \in Range(allowed_for("admin", username))
      /\ tab_partial.words[1] \in DelegatedCommands )
    => /\ suggested = autocomplete_handler(tab_partial, "admin", username)
       /\ \A i \in DOMAIN suggested :
             /\ Len(suggested[i]) = 2
             /\ suggested[i][1] = tab_partial.words[1]

InWindow(fail_times) == SelectSeq(fail_times, LAMBDA x : x >= now - AUTH_WINDOW)

\* new is what one call of a limiter method with threshold max_fails, or no
\* call, makes of the key state old at the present time
SerialEffect(old, new, max_fails) ==
    LET st == IF old.present THEN old ELSE KeyState
        counted == InWindow(st.fail_times) \o <<now>>
    IN  \/ new = old
        \/ new = NoKeyState
        \/ /\ st.lock_until <= now
           /\ Len(counted) < max_fails
           /\ new = [st EXCEPT !.fail_times = counted]
        \/ /\ st.lock_until <= now
           /\ Len(counted) >= max_fails
           /\ new.present
           /\ new.fail_times = <<>>
           /\ new.lockouts = st.lockouts + 1
           /\ new.lock_until > now

\* C29: with the login loops of several clients interleaved on the same
\* keys, every step leaves each key of each limiter as one limiter call (or
\* none) applied to the state the step found: a failure on an unlocked key
\* adds exactly one entry to the failures of the window, none of them lost,
\* or, at the threshold, empties the queue and increments the lockout
\* counter by exactly one; a success removes the key; nothing else changes
C29_CallsAreSerial ==
    [][/\ \A ip \in IPs :
             SerialEffect(ip_states[ip], ip_states'[ip], AUTH_MAX_FAILS_PER_IP)
       /\ \A name \in LoginNames :
             SerialEffect(user_states[name], user_states'[name], AUTH_MAX_FAILS_PER_USER)]_vars

\* two clients of one address are both in the sleep that follows a failed
\* attempt, and both failures are in the queue of the address
C29_Witness ==
    /\ \A c \in Clients : loginPc[c] = "sleep"
    /\ client_ip["c1"] = client_ip["c2"]
    /\ Len(ip_states[client_ip["c1"]].fail_times) = 2

\* --------------------------------------------------- interrupt properties
\* C30: a line other than `__INTERRUPT__` accepted while a job task of the
\* session is unfinished is answered with the 'already running' message and
\* changes neither the session loop's task and prompt flag, the process
\* table, the jobs nor the prompts on their way
C30_OnlyInterruptWhileLive ==
    [][(AcceptStep /\ cmd' # "__INTERRUPT__" /\ \E j \in JobIds : unfinished(j))
          => /\ reply' = "already_running"
             /\ UNCHANGED <<running_task, need_prompt, username, tableVars, jobs,
                            nextJob, promptTasks>>]_vars

\* ------------------------------------------------------ prompt properties
\* the step sends a prompt: the loop top's `await send_prompt()` (lines
\* 28-29) or the task created by a done-callback
PromptByLoop ==
    /\ mainPc \in {"top", "set_need"}
    /\ mainPc' = "recv"
    /\ running_task = 0
    /\ mainPc = "set_need" \/ need_prompt
    /\ wsOpen
PromptByTask == promptTasks' = promptTasks - 1 /\ wsOpen

\* C31: no prompt is sent while a dispatched job is unfinished: neither the
\* loop top nor a prompt task sends one between the dispatch of a job and its
\* completion
C31_NoPromptDuringJob ==
    [][(PromptByLoop \/ PromptByTask) => \A j \in JobIds : ~unfinished(j)]_vars

\* ----------------------------------------------------- backoff properties
\* min(BACKOFF_BASE * 2^(n-1), BACKOFF_MAX) for the failure of the last call,
\* n counting the failures of the key in the window with this one
NominalBackoff ==
    Min(AUTH_BACKOFF_BASE * (2 ^ (FailuresInWindow - 1)), AUTH_BACKOFF_MAX)

\* C32: the backoff returned by register_failure is never negative and lies
\* within the jitter fraction of min(BACKOFF_BASE * 2^(n-1), BACKOFF_MAX),
\* whether the key was locked, the call triggered a lockout, or neither
C32_BackoffOnEveryFailure ==
    ret.op = "register_failure"
       => /\ ret.backoff >= 0
          /\ ret.backoff >= NominalBackoff - NominalBackoff \div JitterDiv
          /\ ret.backoff <= NominalBackoff + NominalBackoff \div JitterDiv

\* ------------------------------------------------------ window properties
\* the failures the key of the last call held that were within the window at
\* the time of the call
PriorInWindow ==
    SelectSeq(PriorState.fail_times, LAMBDA x : x >= ret.at - AUTH_WINDOW)

\* C33: register_failure on a key that is not locked counts the failure
\* being registered and the earlier ones of the window, and no other: below
\* the threshold the queue left behind holds exactly those, a lockout is
\* triggered exactly when they number max_fails or more, and a failure whose
\* predecessors are all older than the window is the first of its window and
\* triggers no lockout
C33_CountsFailuresOfWindow ==
    (ret.op = "register_failure" /\ PriorState.lock_until <= ret.at)
       => LET n == Len(PriorInWindow) + 1
          IN  /\ (ret.value > 0) = (n >= max_fails_of(ret.limiter))
              /\ ret.value = 0 => KeyNow.fail_times = PriorInWindow \o <<ret.at>>
              /\ \A i \in DOMAIN KeyNow.fail_times :
                    KeyNow.fail_times[i] >= ret.at - AUTH_WINDOW
              /\ PriorInWindow = <<>>
                    => /\ ret.value = 0
                       /\ KeyNow.fail_times = <<ret.at>>
                       /\ KeyNow.lockouts = PriorState.lockouts

\* a failure was registered on a key whose earlier failures had all left the
\* window: they were purged and no lockout was triggered
C33_Witness ==
    /\ ret.op = "register_failure"
    /\ PriorState.lock_until <= ret.at
    /\ PriorState.fail_times # <<>>
    /\ PriorInWindow = <<>>
    /\ KeyNow.fail_times = <<ret.at>>
    /\ ret.value = 0

\* -------------------------------------------------- escalation properties
\* min(lock_base * 2^k, lock_max): the duration of the lockout that follows
\* k earlier ones
LockDuration(k) == Min(AUTH_LOCKOUT_BASE * (2 ^ k), AUTH_LOCKOUT_MAX)

\* C34: the lockout counter of a key goes down only when register_success
\* removes the key, the passing of time and the expiry of a lockout leave it
\* alone, and a lockout triggered after k earlier ones lasts
\* min(lock_base * 2^k, lock_max): lock_base for the first, never less than
\* the one before and never more than lock_max
C34_LockoutsEscalate ==
    [][\A lim \in Limiters :
          LET old == states_of(lim)[key_of(lim)]
              new == states_of(lim)'[key_of(lim)]
              k == old.lockouts
          IN  /\ new.lockouts < k
                    => ~new.present /\ ret'.op = "register_success" /\ ret'.limiter = lim
              /\ now' # now => new = old
              /\ new.lock_until > old.lock_until
                    => /\ new.lockouts = k + 1
                       /\ new.lock_until = now + LockDuration(k)
                       /\ LockDuration(k) <= AUTH_LOCKOUT_MAX
                       /\ k = 0 => LockDuration(k) = AUTH_LOCKOUT_BASE
                       /\ k > 0 => LockDuration(k) >= LockDuration(k - 1)
              /\ new.lockouts > k => new.lock_until > old.lock_until]_vars

\* a key was locked out a second time after its first lockout had expired,
\* for longer than the first time
C34_Witness ==
    /\ ret.op = "register_failure"
    /\ now = ret.at
    /\ PriorState.lockouts = 1
    /\ PriorState.lock_until <= ret.at
    /\ KeyNow.lockouts = 2
    /\ KeyNow.lock_until - ret.at > AUTH_LOCKOUT_BASE

\* -------------------------------------------------- flag value properties
\* the flags of ALLOWED_FLAGS that take an argument
ValueFlags == ALLOWED_FLAGS \cap FLAGS_WITH_ARG

\* C35: a token list in which a flag that takes an argument is followed by a
\* token that begins with '-' is rejected
C35_FlagValueIsNoFlag ==
    ( /\ ValidatorCalled
      /\ \E k \in DOMAIN in_tokens :
            /\ k < Len(in_tokens)
            /\ in_tokens[k] \in ValueFlags
            /\ has_prefix(in_tokens[k + 1], <<"-">>) )
    => ~validated.ok

\* -------------------------------------------------- disconnect properties
\* C37: when the session loop ends on a closed connection, every job task
\* that is still unfinished has been cancelled, no subprocess of the session
\* runs without having been signalled, and the process table holds no entry
C37_JobEndsWithSession ==
    [][(mainPc # "ended" /\ mainPc' = "ended")
          => /\ \A j \in JobIds : unfinished(j)' => jobs'[j].cancelReq
             /\ \A j \in JobIds : jobs'[j].proc # "run"
             /\ CURRENT_RUNNING_PROCESS' = 0
             /\ CURRENT_RUNNING_TASK' = 0]_vars

\* ------------------------------------------------------- queue properties
\* C39: the failure queue of every key of either limiter holds fewer than
\* max_fails timestamps, and none while the lockout of the key is active
C39_QueueBelowThreshold ==
    \A lim \in Limiters :
       \A key \in DOMAIN states_of(lim) :
          LET st == states_of(lim)[key]
          IN  /\ Len(st.fail_times) < max_fails_of(lim)
              /\ st.lock_until > now => st.fail_times = <<>>

\* the queue of the IP key is one failure short of its threshold while the
\* username key is in a lockout
C39_Witness ==
    /\ Len(ip_states[key_of("ip")].fail_times) = AUTH_MAX_FAILS_PER_IP - 1
    /\ user_states[key_of("user")].lock_until > now
    /\ user_states[key_of("user")].fail_times = <<>>

\* ------------------------------------------------ hash upgrade properties
\* C40: a client whose password was verified and whose hash upgrade failed
\* is welcomed and handed to the role handler, and neither its IP key nor
\* its username key has any state left
C40_RehashFailureKeepsLogin ==
    [][\A c \in Clients :
          (loginPc[c] = "password" /\ loginPc'[c] # "password" /\ rehash' = "failed")
             => /\ loginPc'[c] = "authed"
                /\ sent' = "welcome"
                /\ sent_to' = c
                /\ ~ip_states'[client_ip[c]].present
                /\ ~user_states'[login_username[c]].present]_vars

\* a client was welcomed after a failed hash upgrade while the other client
\* sits in the sleep of a failed attempt
C40_Witness ==
    /\ rehash = "failed"
    /\ sent = "welcome"
    /\ \E c \in Clients : sent_to = c /\ loginPc[c] = "authed"
    /\ \E c \in Clients : loginPc[c] = "sleep"

\* ----------------------------------------------- two-session properties
\* C36: a step in which the job of one session starts, registers, is
\* interrupted or ends leaves the registered process and task, the job and
\* the subprocess of every other session as they were
C36_JobStateIsPerSession ==
    [][\A a \in Websockets, b \in Websockets :
          (a # b /\ conns'[a].st # conns[a].st)
             => /\ RUNNING_PROCESS_OF'[b] = RUNNING_PROCESS_OF[b]
                /\ RUNNING_TASK_OF'[b] = RUNNING_TASK_OF[b]
                /\ conns'[b].kind = conns[b].kind
                /\ conns'[b].st = conns[b].st
                /\ conns'[b].proc = conns[b].proc]_vars

\* one session has interrupted its tcpdump, whose subprocess has exited and
\* whose entry is gone, while the tcpdump of the other session runs and is
\* registered
C36_Witness ==
    /\ conns["ws1"].st = "none"
    /\ conns["ws1"].proc = "exit"
    /\ RUNNING_PROCESS_OF["ws1"] = "none"
    /\ conns["ws2"].kind = "tcpdump"
    /\ conns["ws2"].proc = "run"
    /\ RUNNING_PROCESS_OF["ws2"] = "ws2"
    /\ RUNNING_TASK_OF["ws2"] = "ws2"

\* ------------------------------------------------ idle watcher properties
\* C38: the idle watcher closes a connection only when the session has no
\* live job and IDLE_TIMEOUT_SECONDS have passed since the last client input
C38_NoIdleCloseDuringJob ==
    [][\A w \in Websockets :
          (conns[w].open /\ ~conns'[w].open)
             => /\ conns[w].st = "none"
                /\ now - conns[w].last_client_activity >= IDLE_TIMEOUT_SECONDS]_vars

====
